---- MODULE Spec2Model ----
(***************************************************************************)
(* Statement splitter of sql_dump_parser.py: SQLDumpParser.parse_statements *)
(* as a state machine.  One behaviour is one call: Init fixes the input     *)
(* text, every iteration of the while loop (lines 52-93) is one step, and   *)
(* the code after the loop (lines 95-99) is the last step.                  *)
(*                                                                         *)
(* A text is a sequence of one-character strings.  Indices are 0-based as   *)
(* in the Python source; Read(k) is sql_content[k].                         *)
(***************************************************************************)
EXTENDS Integers, Sequences, FiniteSets, TLC

\* The backtick character (a TLA+ string cannot contain one).
Backtick == "BACKTICK"

\* Longest text of the exhaustive part of the input space.
MaxLen == 5

\* Characters of the exhaustive part: the three quote characters, the escape
\* character, the delimiter, one whitespace character and one plain character.
Alphabet == {"'", "\"", Backtick, "\\", ";", " ", "a"}

\* Characters that str.strip() with no argument removes (the ones a TLA+
\* string can spell).
Whitespace == {" ", "\t", "\n", "\r", "\f"}

\* Python's None (current_quote outside a quoted string).
None == "None"

\* The value standing for "sql_content[k] raised IndexError".
IndexError == "IndexError"

(***************************************************************************)
(* Example texts of the specification (section 8) and of the module         *)
(* docstring, spelled out character by character.                           *)
(***************************************************************************)
\* INSERT INTO t (name) VALUES ('a;b');
TextQuotedSemicolon ==
    <<"I", "N", "S", "E", "R", "T", " ", "I", "N", "T", "O", " ", "t", " ", "(", "n",
      "a", "m", "e", ")", " ", "V", "A", "L", "U", "E", "S", " ", "(", "'", "a", ";",
      "b", "'", ")", ";">>

\* UPDATE t SET name = 'O\'Brien' WHERE id = 1;
TextEscapedQuote ==
    <<"U", "P", "D", "A", "T", "E", " ", "t", " ", "S", "E", "T", " ", "n", "a", "m",
      "e", " ", "=", " ", "'", "O", "\\", "'", "B", "r", "i", "e", "n", "'", " ", "W",
      "H", "E", "R", "E", " ", "i", "d", " ", "=", " ", "1", ";">>

\* A;B;C;
TextOrder ==
    <<"A", ";", "B", ";", "C", ";">>

\* SELECT 1
TextNoTrailing ==
    <<"S", "E", "L", "E", "C", "T", " ", "1">>

\* SELECT '"';SELECT "it's";
TextMixedQuotes ==
    <<"S", "E", "L", "E", "C", "T", " ", "'", "\"", "'", ";", "S", "E", "L", "E", "C",
      "T", " ", "\"", "i", "t", "'", "s", "\"", ";">>

\* INSERT INTO `my;table` VALUES (1);
TextBacktick ==
    <<"I", "N", "S", "E", "R", "T", " ", "I", "N", "T", "O", " ", Backtick, "m", "y",
      ";", "t", "a", "b", "l", "e", Backtick, " ", "V", "A", "L", "U", "E", "S", " ",
      "(", "1", ")", ";">>

\*   ;
TextBlankDelimiter ==
    <<" ", " ", ";", " ", " ">>

\* A; SET x = 'b;c;
TextUnterminated ==
    <<"A", ";", " ", "S", "E", "T", " ", "x", " ", "=", " ", "'", "b", ";", "c", ";",
      " ">>

\* A;\n\tB ;\n
TextNewlines ==
    <<"A", ";", "\n", "\t", "B", " ", ";", "\n">>

Examples ==
    {TextQuotedSemicolon, TextEscapedQuote, TextOrder, TextNoTrailing,
     TextMixedQuotes, TextBacktick, TextBlankDelimiter, TextUnterminated,
     TextNewlines}

\* Every text over Alphabet of at most MaxLen characters, and the examples.
Texts == (UNION {[1..n -> Alphabet] : n \in 0..MaxLen}) \cup Examples

(***************************************************************************)
(* Program state.                                                          *)
(***************************************************************************)
VARIABLES
    quote_chars,        \* self.quote_chars (a list)
    escape_char,        \* self.escape_char
    sql_content,        \* the argument of parse_statements
    statements,         \* list of emitted statements
    current_statement,  \* the statement buffer
    in_quoted_string,   \* boolean
    current_quote,      \* None or the quote character that is open
    i,                  \* index of the next character to read (0-based)
    pc,                 \* "scan": in or before the loop; "done": returned;
                        \* "raised": left by an exception
    h_seg_start,        \* history: index at which the current buffer began
    h_quote_at,         \* history: index of the quote that opened the region
    h_spans,            \* history: <<from, to>> input indices of each emission
    h_fragments,        \* history: the fragments the text was built from, if known
    h_returned,         \* history: text and result of the calls that returned before
    other,              \* the locals of a second call that runs concurrently
    parse_file,         \* the file, and the position and locals of parse_file
    validation_results, \* main: the list validate_statements returned
    h_delims,           \* history: the number of ';' read outside a quoted string
    rotation,           \* lambda_function.py: the handler's loop over a user's keys
    poller              \* sqs-volume-writer/main.py: poll_and_process and its queue

vars == <<quote_chars, escape_char, sql_content, statements, current_statement,
          in_quoted_string, current_quote, i, pc, h_seg_start, h_quote_at, h_spans,
          h_fragments, h_returned, other, parse_file, validation_results,
          h_delims, rotation, poller>>

(***************************************************************************)
(* Pure helpers.                                                           *)
(***************************************************************************)
Min(S) == CHOOSE x \in S : \A y \in S : x <= y
Max(S) == CHOOSE x \in S : \A y \in S : x >= y

\* Mutant of Strip: str.lstrip(), only the leading whitespace is removed.
Strip_LeadingOnly(s) ==
    LET keep == {k \in 1..Len(s) : s[k] \notin Whitespace}
    IN  IF keep = {} THEN <<>> ELSE SubSeq(s, Min(keep), Len(s))

\* str.strip(): the text without its leading and trailing whitespace.
Strip(s) ==
    LET keep == {k \in 1..Len(s) : s[k] \notin Whitespace}
    IN  IF keep = {} THEN <<>> ELSE SubSeq(s, Min(keep), Max(keep))

\* len(sql_content)
len == Len(sql_content)

\* sql_content[k], 0-based; an index outside the text raises IndexError.
Read(k) == IF k >= 0 /\ k < len THEN sql_content[k + 1] ELSE IndexError

\* char in self.quote_chars
IsQuoteChar(c) == \E k \in 1..Len(quote_chars) : quote_chars[k] = c

\* Mutant of InitQuoteChars: the backtick is not a quote character.
InitQuoteChars_NoBacktick == <<"'", "\"">>

\* self.quote_chars and self.escape_char as __init__ sets them.
InitQuoteChars == <<"'", "\"", Backtick>>
InitEscapeChar == "\\"

\* input indices from..to-1 of the text (sql_content[from:to])
Slice(from, to) == SubSeq(sql_content, from + 1, to)

\* The locals of a call before its first step (lines 46-50), as a record.
FreshLocals(text) ==
    [sql_content |-> text, statements |-> <<>>, current_statement |-> <<>>,
     in_quoted_string |-> FALSE, current_quote |-> None, i |-> 0, pc |-> "scan",
     h_seg_start |-> 0, h_quote_at |-> -1, h_spans |-> <<>>, h_delims |-> 0]

\* other when no second call runs
NoOther == [FreshLocals(<<>>) EXCEPT !.pc = "none"]

\* parse_file when no file is read: parse_statements is called directly
NoFile ==
    [pc |-> "none", bytes |-> <<>>, content |-> <<>>, attempts |-> <<>>,
     invoked |-> 0, exception |-> None]

\* rotation when the key rotation handler does not run
NoRotation == [pc |-> "none"]

\* poller when the queue poller does not run
NoPoller == [pc |-> "none"]

\* h_fragments of a text that was not built from fragments
NoFragments == [known |-> FALSE, list |-> <<>>]

(***************************************************************************)
(* Initial state: a fresh parser and the locals of lines 46-50.            *)
(***************************************************************************)
Init ==
    /\ quote_chars = InitQuoteChars
    /\ escape_char = InitEscapeChar
    /\ sql_content \in Texts
    /\ statements = <<>>
    /\ current_statement = <<>>
    /\ in_quoted_string = FALSE
    /\ current_quote = None
    /\ i = 0
    /\ pc = "scan"
    /\ h_seg_start = 0
    /\ h_quote_at = -1
    /\ h_spans = <<>>
    /\ h_fragments = NoFragments
    /\ h_returned = <<>>
    /\ other = NoOther
    /\ parse_file = NoFile
    /\ validation_results = <<>>
    /\ h_delims = 0
    /\ rotation = NoRotation
    /\ poller = NoPoller

(***************************************************************************)
(* The while loop, one action per branch.                                  *)
(***************************************************************************)
\* while i < len(sql_content)
InLoop == pc = "scan" /\ i < len

\* char = sql_content[i]
char == Read(i)

\* Mutant of HasNext: if i + 1 <= len(sql_content)
HasNext_OffByOne == i + 1 <= len

\* if i + 1 < len(sql_content)
HasNext == i + 1 < len

\* Mutant of IsEscapedPair: only a doubled escape character is a pair.
IsEscapedPair_EscapeOnly(next_char) == next_char = escape_char

\* Mutant of IsEscapedPair: only an escaped quote is a pair, a doubled escape
\* character is not.
IsEscapedPair_QuoteOnly(next_char) == next_char = current_quote

\* Mutant of IsEscapedPair: an escaped quote is a pair for ' and " only, a
\* backslash before a backtick in a backtick region escapes nothing.
IsEscapedPair_NotForBacktick(next_char) ==
    \/ (next_char = current_quote /\ current_quote # Backtick)
    \/ next_char = escape_char

\* next_char == current_quote or next_char == self.escape_char
IsEscapedPair(next_char) == next_char = current_quote \/ next_char = escape_char

\* Mutant of Emit: statements.insert(0, ...) instead of statements.append(...)
Emit_Prepend(stmts, buffer) ==
    IF Strip(buffer) # <<>> THEN <<Strip(buffer)>> \o stmts ELSE stmts

\* Mutant of Emit: the statement is stored with a ';' appended to it.
Emit_KeepsDelimiter(stmts, buffer) ==
    IF Strip(buffer) # <<>> THEN Append(stmts, Strip(buffer) \o <<";">>) ELSE stmts

\* if current_statement.strip(): statements.append(current_statement.strip())
Emit(stmts, buffer) ==
    IF Strip(buffer) # <<>> THEN Append(stmts, Strip(buffer)) ELSE stmts

\* the history of an emission: the buffer held input indices from..to-1
EmitSpan(spans, buffer, from, to) ==
    IF Strip(buffer) # <<>> THEN Append(spans, <<from, to>>) ELSE spans

Frame ==
    UNCHANGED <<quote_chars, escape_char, sql_content, h_fragments, h_returned, other,
                parse_file, validation_results, rotation, poller>>

\* Mutant of OpenQuote: line 60 is missing, the opening quote is not appended.
OpenQuote_DropsQuote ==
    /\ InLoop /\ ~in_quoted_string
    /\ IsQuoteChar(char)
    /\ in_quoted_string' = TRUE
    /\ current_quote' = char
    /\ i' = i + 1
    /\ h_quote_at' = i
    /\ UNCHANGED <<statements, current_statement, pc, h_seg_start, h_spans>>
    /\ UNCHANGED h_delims
    /\ Frame

\* lines 57-60: a quote character read outside a quoted string
OpenQuote ==
    /\ InLoop /\ ~in_quoted_string
    /\ IsQuoteChar(char)
    /\ in_quoted_string' = TRUE
    /\ current_quote' = char
    /\ current_statement' = Append(current_statement, char)
    /\ i' = i + 1
    /\ h_quote_at' = i
    /\ UNCHANGED <<statements, pc, h_seg_start, h_spans>>
    /\ UNCHANGED h_delims
    /\ Frame

\* the buffer ends inside a line comment: it holds -- with no newline after it
InLineComment(buffer) ==
    \E p \in 1..(Len(buffer) - 1) :
        /\ buffer[p] = "-" /\ buffer[p + 1] = "-"
        /\ \A r \in (p + 2)..Len(buffer) : buffer[r] # "\n"

\* the buffer ends inside a block comment: it holds /* with no */ after it
InBlockComment(buffer) ==
    \E p \in 1..(Len(buffer) - 1) :
        /\ buffer[p] = "/" /\ buffer[p + 1] = "*"
        /\ ~\E r \in (p + 2)..(Len(buffer) - 1) : buffer[r] = "*" /\ buffer[r + 1] = "/"

\* Mutant of Delimiter: a ';' inside a comment is part of the comment.
Delimiter_SkipsComments ==
    /\ InLoop /\ ~in_quoted_string
    /\ ~IsQuoteChar(char)
    /\ char = ";"
    /\ IF InLineComment(current_statement) \/ InBlockComment(current_statement)
       THEN /\ current_statement' = Append(current_statement, char)
            /\ UNCHANGED <<statements, h_spans, h_seg_start, h_delims>>
       ELSE /\ statements' = Emit(statements, current_statement)
            /\ h_spans' = EmitSpan(h_spans, current_statement, h_seg_start, i)
            /\ current_statement' = <<>>
            /\ h_seg_start' = i + 1
            /\ h_delims' = h_delims + 1
    /\ i' = i + 1
    /\ UNCHANGED <<in_quoted_string, current_quote, pc, h_quote_at>>
    /\ Frame

\* Mutant of Delimiter: the test of line 63 is missing, every ';' appends.
Delimiter_AlwaysAppends ==
    /\ InLoop /\ ~in_quoted_string
    /\ ~IsQuoteChar(char)
    /\ char = ";"
    /\ statements' = Append(statements, Strip(current_statement))
    /\ h_spans' = Append(h_spans, <<h_seg_start, i>>)
    /\ current_statement' = <<>>
    /\ i' = i + 1
    /\ h_seg_start' = i + 1
    /\ UNCHANGED <<in_quoted_string, current_quote, pc, h_quote_at>>
    /\ h_delims' = h_delims + 1
    /\ Frame

\* Mutant of Delimiter: the test of line 55 is missing for ';', which ends
\* the statement inside a quoted string too.
Delimiter_IgnoresQuote ==
    /\ InLoop
    /\ ~IsQuoteChar(char)
    /\ char = ";"
    /\ statements' = Emit(statements, current_statement)
    /\ h_spans' = EmitSpan(h_spans, current_statement, h_seg_start, i)
    /\ current_statement' = <<>>
    /\ i' = i + 1
    /\ h_seg_start' = i + 1
    /\ UNCHANGED <<in_quoted_string, current_quote, pc, h_quote_at>>
    /\ h_delims' = h_delims + 1
    /\ Frame

\* lines 61-65: ';' read outside a quoted string
Delimiter ==
    /\ InLoop /\ ~in_quoted_string
    /\ ~IsQuoteChar(char)
    /\ char = ";"
    /\ statements' = Emit(statements, current_statement)
    /\ h_spans' = EmitSpan(h_spans, current_statement, h_seg_start, i)
    /\ current_statement' = <<>>
    /\ i' = i + 1
    /\ h_seg_start' = i + 1
    /\ UNCHANGED <<in_quoted_string, current_quote, pc, h_quote_at>>
    /\ h_delims' = h_delims + 1
    /\ Frame

\* Mutant of AppendUnquoted: the escape character is honoured outside a quoted
\* string too and takes the next character with it.
AppendUnquoted_EscapesNext ==
    /\ InLoop /\ ~in_quoted_string
    /\ ~IsQuoteChar(char)
    /\ char # ";"
    /\ IF char = escape_char /\ HasNext
       THEN /\ current_statement' = current_statement \o <<char, Read(i + 1)>>
            /\ i' = i + 2
       ELSE /\ current_statement' = Append(current_statement, char)
            /\ i' = i + 1
    /\ UNCHANGED <<statements, in_quoted_string, current_quote, pc,
                   h_seg_start, h_quote_at, h_spans>>
    /\ UNCHANGED h_delims
    /\ Frame

\* lines 66-67: any other character read outside a quoted string
AppendUnquoted ==
    /\ InLoop /\ ~in_quoted_string
    /\ ~IsQuoteChar(char)
    /\ char # ";"
    /\ current_statement' = Append(current_statement, char)
    /\ i' = i + 1
    /\ UNCHANGED <<statements, in_quoted_string, current_quote, pc,
                   h_seg_start, h_quote_at, h_spans>>
    /\ UNCHANGED h_delims
    /\ Frame

\* Mutant of EscapedPair: line 77 is missing, the escaped character is read
\* again as the next current character.
EscapedPair_NoSkip ==
    /\ InLoop /\ in_quoted_string
    /\ char = escape_char
    /\ HasNext
    /\ IsEscapedPair(Read(i + 1))
    /\ Read(i + 1) # IndexError
    /\ current_statement' = current_statement \o <<char, Read(i + 1)>>
    /\ i' = i + 1
    /\ UNCHANGED <<statements, in_quoted_string, current_quote, pc,
                   h_seg_start, h_quote_at, h_spans>>
    /\ UNCHANGED h_delims
    /\ Frame

\* Mutant of EscapedPair: the pair is unescaped, only the escaped character
\* is appended.
EscapedPair_DropsEscape ==
    /\ InLoop /\ in_quoted_string
    /\ char = escape_char
    /\ HasNext
    /\ IsEscapedPair(Read(i + 1))
    /\ Read(i + 1) # IndexError
    /\ current_statement' = Append(current_statement, Read(i + 1))
    /\ i' = i + 2
    /\ UNCHANGED <<statements, in_quoted_string, current_quote, pc,
                   h_seg_start, h_quote_at, h_spans>>
    /\ UNCHANGED h_delims
    /\ Frame

\* lines 70-77: the escape character followed by the open quote or by itself
EscapedPair ==
    /\ InLoop /\ in_quoted_string
    /\ char = escape_char
    /\ HasNext
    /\ IsEscapedPair(Read(i + 1))
    /\ Read(i + 1) # IndexError
    /\ current_statement' = current_statement \o <<char, Read(i + 1)>>
    /\ i' = i + 2
    /\ UNCHANGED <<statements, in_quoted_string, current_quote, pc,
                   h_seg_start, h_quote_at, h_spans>>
    /\ UNCHANGED h_delims
    /\ Frame

\* Mutant of RegularEscape: the escape character always takes the next
\* character with it, whatever it is.
RegularEscape_SkipsNext ==
    /\ InLoop /\ in_quoted_string
    /\ char = escape_char
    /\ HasNext
    /\ IF Read(i + 1) = IndexError
       THEN /\ pc' = "raised"
            /\ UNCHANGED <<statements, current_statement, i>>
       ELSE /\ ~IsEscapedPair(Read(i + 1))
            /\ current_statement' = current_statement \o <<char, Read(i + 1)>>
            /\ i' = i + 2
            /\ UNCHANGED <<statements, pc>>
    /\ UNCHANGED <<in_quoted_string, current_quote, h_seg_start, h_quote_at, h_spans>>
    /\ UNCHANGED h_delims
    /\ Frame

\* lines 70-73, 78-80: the escape character followed by any other character;
\* reading next_char outside the text (line 73) would raise IndexError
RegularEscape ==
    /\ InLoop /\ in_quoted_string
    /\ char = escape_char
    /\ HasNext
    /\ IF Read(i + 1) = IndexError
       THEN /\ pc' = "raised"
            /\ UNCHANGED <<statements, current_statement, i>>
       ELSE /\ ~IsEscapedPair(Read(i + 1))
            /\ current_statement' = Append(current_statement, char)
            /\ i' = i + 1
            /\ UNCHANGED <<statements, pc>>
    /\ UNCHANGED <<in_quoted_string, current_quote, h_seg_start, h_quote_at, h_spans>>
    /\ UNCHANGED h_delims
    /\ Frame

\* Mutant of EscapeAtEnd: line 83 is missing, the last backslash is dropped.
EscapeAtEnd_DropsBackslash ==
    /\ InLoop /\ in_quoted_string
    /\ char = escape_char
    /\ ~HasNext
    /\ i' = i + 1
    /\ UNCHANGED <<statements, current_statement, in_quoted_string, current_quote,
                   pc, h_seg_start, h_quote_at, h_spans>>
    /\ UNCHANGED h_delims
    /\ Frame

\* lines 70-72, 81-83: the escape character as the last character of the text
EscapeAtEnd ==
    /\ InLoop /\ in_quoted_string
    /\ char = escape_char
    /\ ~HasNext
    /\ current_statement' = Append(current_statement, char)
    /\ i' = i + 1
    /\ UNCHANGED <<statements, in_quoted_string, current_quote, pc,
                   h_seg_start, h_quote_at, h_spans>>
    /\ UNCHANGED h_delims
    /\ Frame

\* Mutant of CloseQuote: elif char in self.quote_chars, any quote closes.
CloseQuote_AnyQuote ==
    /\ InLoop /\ in_quoted_string
    /\ char # escape_char
    /\ IsQuoteChar(char)
    /\ in_quoted_string' = FALSE
    /\ current_quote' = None
    /\ current_statement' = Append(current_statement, char)
    /\ i' = i + 1
    /\ h_quote_at' = -1
    /\ UNCHANGED <<statements, pc, h_seg_start, h_spans>>
    /\ UNCHANGED h_delims
    /\ Frame

\* Mutant of CloseQuote: line 88 is missing, the closing quote is not appended.
CloseQuote_DropsQuote ==
    /\ InLoop /\ in_quoted_string
    /\ char # escape_char
    /\ char = current_quote
    /\ in_quoted_string' = FALSE
    /\ current_quote' = None
    /\ i' = i + 1
    /\ h_quote_at' = -1
    /\ UNCHANGED <<statements, current_statement, pc, h_seg_start, h_spans>>
    /\ UNCHANGED h_delims
    /\ Frame

\* Mutant of CloseQuote: a doubled quote is taken as one escaped quote, both
\* characters are appended at once and the quoted string stays open.
CloseQuote_DoubledStays ==
    /\ InLoop /\ in_quoted_string
    /\ char # escape_char
    /\ char = current_quote
    /\ IF HasNext /\ Read(i + 1) = current_quote
       THEN /\ current_statement' = current_statement \o <<char, char>>
            /\ i' = i + 2
            /\ UNCHANGED <<in_quoted_string, current_quote, h_quote_at>>
       ELSE /\ in_quoted_string' = FALSE
            /\ current_quote' = None
            /\ current_statement' = Append(current_statement, char)
            /\ i' = i + 1
            /\ h_quote_at' = -1
    /\ UNCHANGED <<statements, pc, h_seg_start, h_spans>>
    /\ UNCHANGED h_delims
    /\ Frame

\* Mutant of CloseQuote: line 87 is missing, current_quote keeps the quote.
CloseQuote_KeepsCurrentQuote ==
    /\ InLoop /\ in_quoted_string
    /\ char # escape_char
    /\ char = current_quote
    /\ in_quoted_string' = FALSE
    /\ current_statement' = Append(current_statement, char)
    /\ i' = i + 1
    /\ h_quote_at' = -1
    /\ UNCHANGED <<statements, current_quote, pc, h_seg_start, h_spans>>
    /\ UNCHANGED h_delims
    /\ Frame

\* lines 84-88: the open quote character closes the quoted string
CloseQuote ==
    /\ InLoop /\ in_quoted_string
    /\ char # escape_char
    /\ char = current_quote
    /\ in_quoted_string' = FALSE
    /\ current_quote' = None
    /\ current_statement' = Append(current_statement, char)
    /\ i' = i + 1
    /\ h_quote_at' = -1
    /\ UNCHANGED <<statements, pc, h_seg_start, h_spans>>
    /\ UNCHANGED h_delims
    /\ Frame

\* Mutant of AppendQuoted: a ';' inside a quoted string ends the statement.
AppendQuoted_SplitsOnSemicolon ==
    /\ InLoop /\ in_quoted_string
    /\ char # escape_char
    /\ char # current_quote
    /\ IF char = ";"
       THEN /\ statements' = Emit(statements, current_statement)
            /\ h_spans' = EmitSpan(h_spans, current_statement, h_seg_start, i)
            /\ current_statement' = <<>>
            /\ h_seg_start' = i + 1
       ELSE /\ current_statement' = Append(current_statement, char)
            /\ UNCHANGED <<statements, h_spans, h_seg_start>>
    /\ i' = i + 1
    /\ UNCHANGED <<in_quoted_string, current_quote, pc, h_quote_at>>
    /\ UNCHANGED h_delims
    /\ Frame

\* lines 89-91: any other character inside a quoted string
AppendQuoted ==
    /\ InLoop /\ in_quoted_string
    /\ char # escape_char
    /\ char # current_quote
    /\ current_statement' = Append(current_statement, char)
    /\ i' = i + 1
    /\ UNCHANGED <<statements, in_quoted_string, current_quote, pc,
                   h_seg_start, h_quote_at, h_spans>>
    /\ UNCHANGED h_delims
    /\ Frame

\* Mutant of Finish: lines 95-97 are missing, the last buffer is dropped.
Finish_NoEmit ==
    /\ pc = "scan" /\ ~(i < len)
    /\ pc' = "done"
    /\ UNCHANGED <<statements, h_spans, current_statement, in_quoted_string,
                   current_quote, i, h_seg_start, h_quote_at>>
    /\ UNCHANGED h_delims
    /\ Frame

\* Mutant of Finish: a buffer that ends inside an open quote is dropped.
Finish_DropsOpenQuote ==
    /\ pc = "scan" /\ ~(i < len)
    /\ statements' = IF in_quoted_string THEN statements
                     ELSE Emit(statements, current_statement)
    /\ h_spans' = IF in_quoted_string THEN h_spans
                  ELSE EmitSpan(h_spans, current_statement, h_seg_start, i)
    /\ pc' = "done"
    /\ UNCHANGED <<current_statement, in_quoted_string, current_quote, i,
                   h_seg_start, h_quote_at>>
    /\ UNCHANGED h_delims
    /\ Frame

\* lines 95-99: after the loop, emit the last buffer and return statements
Finish ==
    /\ pc = "scan" /\ ~(i < len)
    /\ statements' = Emit(statements, current_statement)
    /\ h_spans' = EmitSpan(h_spans, current_statement, h_seg_start, i)
    /\ pc' = "done"
    /\ UNCHANGED <<current_statement, in_quoted_string, current_quote, i,
                   h_seg_start, h_quote_at>>
    /\ UNCHANGED h_delims
    /\ Frame

Next ==
    \/ OpenQuote
    \/ Delimiter
    \/ AppendUnquoted
    \/ EscapedPair
    \/ RegularEscape
    \/ EscapeAtEnd
    \/ CloseQuote
    \/ AppendQuoted
    \/ Finish

Spec == Init /\ [][Next]_vars

\* The interpreter runs the call to its end: a step that can be taken is taken.
LiveSpec == Spec /\ WF_vars(Next)

(***************************************************************************)
(* Further calls on the same parser object.  A call that follows a         *)
(* returned one starts from the locals of lines 46-50; the history keeps   *)
(* the text, the result and the final quote state of the call before it.   *)
(***************************************************************************)
\* Mutant of CallAgain: the quote state is kept from the call before, as if
\* it were stored on the parser object.
CallAgain_KeepsQuoteState(text, cut) ==
    /\ pc = "done"
    /\ h_returned' = Append(h_returned,
                            [text |-> sql_content, result |-> statements,
                             in_quote |-> in_quoted_string, spans |-> h_spans,
                             cut |-> cut])
    /\ sql_content' = text
    /\ statements' = <<>>
    /\ current_statement' = <<>>
    /\ h_delims' = 0
    /\ UNCHANGED <<rotation, poller>>
    /\ i' = 0
    /\ pc' = "scan"
    /\ h_seg_start' = 0
    /\ h_quote_at' = -1
    /\ h_spans' = <<>>
    /\ UNCHANGED <<quote_chars, escape_char, h_fragments, other, in_quoted_string,
                   current_quote, parse_file, validation_results>>

\* parse_statements(text) called after an earlier call has returned
CallAgain(text, cut) ==
    /\ pc = "done"
    /\ h_returned' = Append(h_returned,
                            [text |-> sql_content, result |-> statements,
                             in_quote |-> in_quoted_string, spans |-> h_spans,
                             cut |-> cut])
    /\ sql_content' = text
    /\ statements' = <<>>
    /\ current_statement' = <<>>
    /\ in_quoted_string' = FALSE
    /\ current_quote' = None
    /\ h_delims' = 0
    /\ UNCHANGED <<rotation, poller>>
    /\ i' = 0
    /\ pc' = "scan"
    /\ h_seg_start' = 0
    /\ h_quote_at' = -1
    /\ h_spans' = <<>>
    /\ UNCHANGED <<quote_chars, escape_char, h_fragments, other, parse_file,
                   validation_results>>


(***************************************************************************)
(* Properties.  A step "reads c" when the loop is running and c is the      *)
(* character at index i.                                                    *)
(***************************************************************************)
Reads(c) == pc = "scan" /\ i < len /\ sql_content[i + 1] = c

AllQuoteChars == {"'", "\"", Backtick}

\* C1: quoted-semicolon immunity.  A ';' read inside a quoted region never
\* ends a statement: it is appended to the buffer, the list of emitted
\* statements is unchanged on that step and the region stays open; the text
\* INSERT INTO t (name) VALUES ('a;b'); returns exactly one statement, the
\* text without its final ';', which contains a;b.
QuotedSemicolonImmunity ==
    /\ [][(Reads(";") /\ in_quoted_string)
            => /\ statements' = statements
               /\ current_statement' = Append(current_statement, ";")
               /\ in_quoted_string'
               /\ current_quote' = current_quote]_vars
    /\ [](pc = "done" /\ sql_content = TextQuotedSemicolon
            => statements = <<SubSeq(TextQuotedSemicolon, 1, 35)>>)

\* C1 witness: in the example, the ';' between a and b has just been read
\* inside the quoted region.
QuotedSemicolonRead ==
    /\ sql_content = TextQuotedSemicolon
    /\ pc = "scan" /\ in_quoted_string
    /\ i = 32 /\ sql_content[i] = ";"
    /\ statements = <<>>

\* C2: escaped-quote immunity.  Inside a region with open quote q, a backslash
\* immediately followed by q does not close the region: both characters are
\* appended, the index advances by two, the scanner stays in InQuote(q) and
\* nothing is emitted; a ';' read right after such a pair is literal; the text
\* UPDATE t SET name = 'O\'Brien' WHERE id = 1; returns exactly one statement
\* with \' preserved.
EscapedQuoteImmunity ==
    /\ [][(Reads("\\") /\ in_quoted_string /\ i + 1 < len
             /\ sql_content[i + 2] = current_quote)
            => /\ current_statement' = current_statement \o <<"\\", current_quote>>
               /\ i' = i + 2
               /\ in_quoted_string'
               /\ current_quote' = current_quote
               /\ statements' = statements]_vars
    /\ [][(Reads("\\") /\ in_quoted_string /\ i + 2 < len
             /\ sql_content[i + 2] = current_quote /\ sql_content[i + 3] = ";")
            => (Reads(";") /\ in_quoted_string)']_vars
    /\ [](pc = "done" /\ sql_content = TextEscapedQuote
            => statements = <<SubSeq(TextEscapedQuote, 1, 43)>>)

\* C2 witness: in the example, the pair \' has just been consumed and the
\* region opened by ' is still open.
EscapedQuoteConsumed ==
    /\ sql_content = TextEscapedQuote
    /\ pc = "scan" /\ i = 24
    /\ sql_content[23] = "\\" /\ sql_content[24] = "'"
    /\ in_quoted_string /\ current_quote = "'"

\* C3: order preservation.  The list of emitted statements changes only by
\* an append at its end; the k-th statement is the trimmed text of an input
\* range that ends before the range of the (k+1)-th begins; A;B;C; returns
\* A, B, C in that order.
OrderPreservation ==
    /\ [][\/ statements' = statements
          \/ /\ Len(statements') = Len(statements) + 1
             /\ SubSeq(statements', 1, Len(statements)) = statements]_vars
    /\ [](/\ Len(h_spans) = Len(statements)
          /\ \A k \in 1..Len(statements) :
               /\ 0 <= h_spans[k][1] /\ h_spans[k][1] < h_spans[k][2]
               /\ h_spans[k][2] <= len
               /\ statements[k] = Strip(Slice(h_spans[k][1], h_spans[k][2]))
               /\ k < Len(statements) => h_spans[k][2] < h_spans[k + 1][1])
    /\ [](pc = "done" /\ sql_content = TextOrder
            => statements = << <<"A">>, <<"B">>, <<"C">> >>)

\* C3 witness: three statements have been returned for A;B;C;
OrderOfThree ==
    /\ sql_content = TextOrder /\ pc = "done"
    /\ Len(statements) = 3
    /\ h_spans = << <<0, 1>>, <<2, 3>>, <<4, 5>> >>

\* C4: every emitted statement, in every state of the scan and in the
\* returned list, is non-empty and neither begins nor ends with a whitespace
\* character.
StatementsTrimmedNonEmpty ==
    \A k \in 1..Len(statements) :
        /\ Len(statements[k]) > 0
        /\ statements[k][1] \notin Whitespace
        /\ statements[k][Len(statements[k])] \notin Whitespace

\* C4 witness: a statement was emitted from a buffer that had whitespace at
\* both ends.
TrimmedStatementEmitted ==
    /\ Len(statements) >= 1
    /\ LET buffer == Slice(h_spans[1][1], h_spans[1][2])
       IN  /\ buffer[1] \in Whitespace
           /\ buffer[Len(buffer)] \in Whitespace
           /\ Len(statements[1]) = Len(buffer) - 2

\* C5: a text made only of whitespace characters and ';' (the empty text,
\* ;;; and "  ;  " among them) returns the empty list.
OnlyBlank == \A k \in 1..len : sql_content[k] \in Whitespace \cup {";"}

BlankTextReturnsNothing ==
    (pc = "done" /\ OnlyBlank) => statements = <<>>

\* C5 witness: "  ;  " has been split and nothing was returned.
BlankDelimiterDone ==
    sql_content = TextBlankDelimiter /\ pc = "done" /\ statements = <<>>

\* C6: no trailing delimiter.  When the scan ends with a buffer that is
\* non-empty after trimming, the buffer is all the text after the last
\* top-level ';' and its trimmed text is the last statement; a text with no
\* top-level ';' and a non-whitespace character returns exactly one
\* statement, the trimmed text; SELECT 1 returns SELECT 1.
NoTrailingDelimiter ==
    /\ (pc = "done" /\ Strip(current_statement) # <<>>)
          => /\ current_statement = Slice(h_seg_start, len)
             /\ Len(statements) >= 1
             /\ statements[Len(statements)] = Strip(current_statement)
    /\ (pc = "done" /\ h_seg_start = 0
          /\ \E k \in 1..len : sql_content[k] \notin Whitespace)
          => statements = <<Strip(sql_content)>>
    /\ (pc = "done" /\ sql_content = TextNoTrailing)
          => statements = <<TextNoTrailing>>

\* C6 witness: SELECT 1 has been returned as the only statement.
NoTrailingDone ==
    /\ sql_content = TextNoTrailing /\ pc = "done"
    /\ h_seg_start = 0
    /\ statements = <<TextNoTrailing>>

\* C7: totality.  The call never leaves by an exception and always returns:
\* while the loop runs a step is always possible and raises the index by
\* exactly 1 or 2 without passing the end of the text, the lookahead
\* character is read only at an index inside the text, the loop is left with
\* the index equal to the length of the text, and the call reaches its
\* return.
Totality ==
    /\ [](pc # "raised")
    /\ [](0 <= i /\ i <= len)
    /\ [](pc = "scan" => ENABLED Next)
    /\ [][(pc = "scan" /\ i < len)
            => /\ pc' = "scan"
               /\ i' \in {i + 1, i + 2}
               /\ (i' = i + 2 => i + 1 < len)]_vars
    /\ [][(pc = "scan" /\ ~(i < len)) => (pc' = "done" /\ i' = len)]_vars
    /\ [](pc = "done" => i = len)
    /\ <>(pc = "done")

\* C7 witness: the text '\'\ (an open quote, an escaped pair, a backslash as
\* last character) has been scanned to its end and returned.
TotalityOnTruncatedEscape ==
    /\ sql_content = <<"'", "\\", "'", "\\">>
    /\ pc = "done" /\ i = 4
    /\ in_quoted_string

\* C8: mixed quote kinds.  With a region open on q, a quote character other
\* than q is literal: it is appended, q stays the open quote and nothing is
\* emitted; a region is closed only by a step that reads q itself as the
\* current character; SELECT '"';SELECT "it's"; returns two statements.
MixedQuoteKinds ==
    /\ [][(pc = "scan" /\ i < len /\ in_quoted_string
             /\ sql_content[i + 1] \in AllQuoteChars \ {current_quote})
            => /\ in_quoted_string'
               /\ current_quote' = current_quote
               /\ current_statement' = Append(current_statement, sql_content[i + 1])
               /\ statements' = statements]_vars
    /\ [][(in_quoted_string /\ ~in_quoted_string')
            => /\ Reads(current_quote)
               /\ i' = i + 1
               /\ current_quote' = None]_vars
    /\ [](pc = "done" /\ sql_content = TextMixedQuotes
            => statements = <<SubSeq(TextMixedQuotes, 1, 10),
                              SubSeq(TextMixedQuotes, 12, 24)>>)

\* C8 witness: in the example, the ' of it's has just been read inside the
\* region opened by ", which is still open.
OtherQuoteReadInside ==
    /\ sql_content = TextMixedQuotes
    /\ pc = "scan" /\ i = 22 /\ sql_content[i] = "'"
    /\ in_quoted_string /\ current_quote = "\""
    /\ Len(statements) = 1

\* C9: backtick is a quote character like ' and ".  Each of the three, read
\* outside a quoted region, opens a region whose open quote it is, and in
\* that region ';' is literal; a region opened by a backtick is closed only
\* by a backtick read as the current character;
\* INSERT INTO `my;table` VALUES (1); returns one statement with `my;table`
\* intact.
BacktickIsQuote ==
    /\ [][\A q \in AllQuoteChars :
            (Reads(q) /\ ~in_quoted_string)
               => /\ in_quoted_string'
                  /\ current_quote' = q
                  /\ current_statement' = Append(current_statement, q)
                  /\ statements' = statements]_vars
    /\ [][\A q \in AllQuoteChars :
            (Reads(";") /\ in_quoted_string /\ current_quote = q)
               => /\ in_quoted_string'
                  /\ current_quote' = q
                  /\ current_statement' = Append(current_statement, ";")
                  /\ statements' = statements]_vars
    /\ [][(in_quoted_string /\ current_quote = Backtick /\ ~in_quoted_string')
            => Reads(Backtick)]_vars
    /\ [](pc = "done" /\ sql_content = TextBacktick
            => statements = <<SubSeq(TextBacktick, 1, 33)>>)

\* C9 witness: in the example, the ';' of `my;table` has just been read
\* inside the region opened by the backtick.
SemicolonInsideBacktick ==
    /\ sql_content = TextBacktick
    /\ pc = "scan" /\ i = 16 /\ sql_content[i] = ";"
    /\ in_quoted_string /\ current_quote = Backtick
    /\ statements = <<>>

\* The number of consecutive backslashes right before index j, after index p.
BackslashRun(j, p) ==
    Max({n \in 0..(j - p - 1) : \A m \in 1..n : sql_content[j - m + 1] = "\\"})

\* The open quote character does not occur unescaped after the quote that
\* opened the region: each occurrence follows an odd run of backslashes.
NoUnescapedRecurrence ==
    /\ in_quoted_string
    /\ \A j \in (h_quote_at + 1)..(len - 1) :
          sql_content[j + 1] = current_quote
             => BackslashRun(j, h_quote_at) % 2 = 1

\* C10: unterminated quote.  Once a region is open whose quote character
\* never recurs unescaped, every step of the scan keeps the region open on
\* the same quote and emits nothing, the buffer holds every character read
\* since the last top-level ';' (each ';' read since the quote included), and
\* the step after the scan emits that buffer, trimmed, as the one final
\* statement.
UnterminatedQuote ==
    /\ [][(pc = "scan" /\ i < len /\ NoUnescapedRecurrence)
            => /\ in_quoted_string'
               /\ current_quote' = current_quote
               /\ h_quote_at' = h_quote_at
               /\ statements' = statements]_vars
    /\ [](NoUnescapedRecurrence
            => /\ h_seg_start <= h_quote_at /\ h_quote_at < i
               /\ current_statement = Slice(h_seg_start, i))
    /\ [][(pc = "scan" /\ ~(i < len) /\ NoUnescapedRecurrence)
            => /\ Strip(Slice(h_seg_start, len)) # <<>>
               /\ statements' = Append(statements, Strip(Slice(h_seg_start, len)))]_vars
    /\ [](pc = "done" /\ sql_content = TextUnterminated
            => statements = << <<"A">>, SubSeq(TextUnterminated, 4, 16) >>)

\* C10 witness: the example has been returned with its quote still open and
\* the two ';' after the quote inside the last statement.
UnterminatedReturned ==
    /\ sql_content = TextUnterminated /\ pc = "done"
    /\ in_quoted_string /\ h_quote_at = 11
    /\ Len(statements) = 2
    /\ statements[2][Len(statements[2])] = ";"

(***************************************************************************)
(* Well-formed scripts: fragments that hold only closed quoted regions,     *)
(* joined with a ';' after each.                                           *)
(***************************************************************************)
\* Characters of a fragment outside its quoted regions.
PlainChars == Alphabet \ (AllQuoteChars \cup {";"})

\* The bodies of n characters of a region quoted by q: characters other than
\* q and the backslash, and the pairs backslash-q and backslash-backslash.
Bodies[q \in AllQuoteChars, n \in 0..(MaxLen + 1)] ==
    IF n = 0 THEN {<<>>}
    ELSE {Append(b, c) : b \in Bodies[q, n - 1], c \in Alphabet \ {q, "\\"}}
         \cup (IF n >= 2
               THEN {b \o <<"\\", e>> : b \in Bodies[q, n - 2], e \in {q, "\\"}}
               ELSE {})

\* The fragments of n characters: plain characters and closed regions.
FragmentsOf[n \in 0..(MaxLen + 1)] ==
    IF n = 0 THEN {<<>>}
    ELSE {Append(f, c) : f \in FragmentsOf[n - 1], c \in PlainChars}
         \cup UNION {{f \o <<q>> \o b \o <<q>> :
                         f \in FragmentsOf[n - k], b \in Bodies[q, k - 2]} :
                     k \in 2..n, q \in AllQuoteChars}

\* The lists of fragments whose script has n characters.
FragmentLists[n \in 0..(MaxLen + 1)] ==
    IF n = 0 THEN {<<>>}
    ELSE UNION {{Append(l, f) : l \in FragmentLists[n - k - 1], f \in FragmentsOf[k]} :
                k \in 0..(n - 1)}

\* The fragments of three of the example texts.
ExampleFragmentLists ==
    {<<SubSeq(TextMixedQuotes, 1, 10), SubSeq(TextMixedQuotes, 12, 24)>>,
     <<SubSeq(TextEscapedQuote, 1, 43)>>,
     <<SubSeq(TextNewlines, 1, 1), SubSeq(TextNewlines, 3, 6),
       SubSeq(TextNewlines, 8, 8)>>}

WellFormedLists ==
    (UNION {FragmentLists[n] : n \in 0..MaxLen}) \cup ExampleFragmentLists

\* f_1;f_2;...;f_n;
RECURSIVE Script(_)
Script(l) ==
    IF l = <<>> THEN <<>>
    ELSE Script(SubSeq(l, 1, Len(l) - 1)) \o l[Len(l)] \o <<";">>

\* The fragments that are non-empty after trimming, each trimmed, in order.
RECURSIVE TrimmedNonEmpty(_)
TrimmedNonEmpty(l) ==
    IF l = <<>> THEN <<>>
    ELSE LET rest == TrimmedNonEmpty(SubSeq(l, 1, Len(l) - 1))
             last == l[Len(l)]
         IN  IF \A k \in 1..Len(last) : last[k] \in Whitespace
             THEN rest
             ELSE Append(rest, SubSeq(last,
                     Min({k \in 1..Len(last) : last[k] \notin Whitespace}),
                     Max({k \in 1..Len(last) : last[k] \notin Whitespace})))

\* A call on a script built from known fragments, or on any text.
InitRoundTrip ==
    /\ quote_chars = InitQuoteChars
    /\ escape_char = InitEscapeChar
    /\ \/ \E l \in WellFormedLists :
             /\ h_fragments = [known |-> TRUE, list |-> l]
             /\ sql_content = Script(l)
       \/ /\ h_fragments = NoFragments
          /\ sql_content \in Texts
    /\ statements = <<>>
    /\ current_statement = <<>>
    /\ in_quoted_string = FALSE
    /\ current_quote = None
    /\ i = 0
    /\ pc = "scan"
    /\ h_seg_start = 0
    /\ h_quote_at = -1
    /\ h_spans = <<>>
    /\ h_returned = <<>>
    /\ other = NoOther
    /\ parse_file = NoFile
    /\ validation_results = <<>>
    /\ h_delims = 0
    /\ rotation = NoRotation
    /\ poller = NoPoller

RoundTripSpec == InitRoundTrip /\ [][Next]_vars

\* C11: round trip on well-formed input.  For a script f_1;f_2;...;f_n; whose
\* fragments hold only closed quoted regions (inside a region every backslash
\* begins a pair) and no top-level ';', the call returns exactly the
\* fragments that are non-empty after trimming, each trimmed, in order.
RoundTrip ==
    (pc = "done" /\ h_fragments.known)
        => statements = TrimmedNonEmpty(h_fragments.list)

\* C11 witness: the script of the two fragments SELECT '"' and SELECT "it's"
\* has been split into these two.
RoundTripOfTwo ==
    /\ pc = "done" /\ h_fragments.known
    /\ Len(h_fragments.list) = 2
    /\ sql_content = TextMixedQuotes
    /\ statements = h_fragments.list

(***************************************************************************)
(* Replay: the statements of a returned call, each followed by ';', are     *)
(* given to a second call.                                                  *)
(***************************************************************************)
\* parse_statements(s_1;s_2;...;s_n;) after the call that returned s_1..s_n
ReplayCall ==
    /\ h_returned = <<>>
    /\ CallAgain(Script(statements), 0)

NextReplay == Next \/ ReplayCall

ReplaySpec == Init /\ [][NextReplay]_vars

\* C12 as stated: for any text, the replay of its statements is split into
\* the same statements.
ReplayOfAnyText ==
    (pc = "done" /\ Len(h_returned) = 1)
        => statements = h_returned[1].result

\* C12, amended: for any text whose scan ends outside a quoted region, the
\* replay of its statements (each followed by ';') is split into the same
\* sequence of statements.
ReplayOfClosedText ==
    (pc = "done" /\ Len(h_returned) = 1 /\ ~h_returned[1].in_quote)
        => statements = h_returned[1].result

\* C12 witness: the replay A;B; of the statements of the text A;\n\tB ;\n has
\* been split into A and B again.
ReplayDone ==
    /\ pc = "done" /\ Len(h_returned) = 1
    /\ h_returned[1].text = TextNewlines
    /\ ~h_returned[1].in_quote
    /\ sql_content = <<"A", ";", "B", ";">>
    /\ statements = << <<"A">>, <<"B">> >>

(***************************************************************************)
(* Suffix: the text after a ';' that ended a statement of a returned call   *)
(* is given to a second call.                                               *)
(***************************************************************************)
\* parse_statements(text after the ';' that ended the k-th statement)
SuffixCall ==
    /\ h_returned = <<>>
    /\ \E k \in 1..Len(h_spans) :
          /\ h_spans[k][2] < len
          /\ CallAgain(Slice(h_spans[k][2] + 1, len), k)

NextSuffix == Next \/ SuffixCall

SuffixSpec == Init /\ [][NextSuffix]_vars

\* C13: no quote-state leak at statement boundaries.  A step of the scan that
\* emits a statement or resets the buffer reads ';' in the Unquoted state
\* with no open quote and leaves the scanner Unquoted with an empty buffer,
\* so every buffer starts Unquoted; the statements that follow such a ';' are
\* the ones the text after it gives when split alone.
NoQuoteStateLeak ==
    /\ [][(pc = "scan" /\ pc' = "scan"
             /\ (statements' # statements \/ h_seg_start' # h_seg_start))
            => /\ Reads(";")
               /\ ~in_quoted_string /\ current_quote = None
               /\ ~in_quoted_string' /\ current_quote' = None
               /\ current_statement' = <<>>
               /\ h_seg_start' = i']_vars
    /\ []((pc = "scan" /\ i = h_seg_start)
            => (~in_quoted_string /\ current_quote = None
                /\ current_statement = <<>>))
    /\ []((pc = "done" /\ Len(h_returned) = 1)
            => h_returned[1].result
                 = SubSeq(h_returned[1].result, 1, h_returned[1].cut) \o statements)

\* C13 witness: the text after the first ';' of SELECT '"';SELECT "it's"; has
\* been split alone and gave the second statement of the whole text.
SuffixSplitAlone ==
    /\ pc = "done" /\ Len(h_returned) = 1
    /\ h_returned[1].text = TextMixedQuotes
    /\ h_returned[1].cut = 1
    /\ sql_content = SubSeq(TextMixedQuotes, 12, 25)
    /\ statements = <<h_returned[1].result[2]>>

\* A text that opens a region, holds an escaped backslash and closes it: '\\';
TextEscapedBackslash == <<"'", "\\", "\\", "'", ";">>

\* C18: closing-quote parity.  Inside a region with open quote q, the
\* character q at the index being read or skipped closes the region exactly
\* when an even number (zero included) of consecutive backslashes of the
\* region stands right before it: q read as the current character follows
\* an even run and closes; q skipped as the second character of a pair
\* follows an odd run and does not close; no other step closes.  '\\'; closes
\* after the escaped backslash and its ';' is a delimiter.
ClosingQuoteParity ==
    /\ [][(Reads(current_quote) /\ in_quoted_string)
            => /\ BackslashRun(i, h_quote_at) % 2 = 0
               /\ ~in_quoted_string'
               /\ i' = i + 1]_vars
    /\ [][(pc = "scan" /\ in_quoted_string /\ i' = i + 2
             /\ sql_content[i + 2] = current_quote)
            => /\ BackslashRun(i + 1, h_quote_at) % 2 = 1
               /\ in_quoted_string'
               /\ current_quote' = current_quote]_vars
    /\ [][(pc = "scan" /\ in_quoted_string /\ ~in_quoted_string')
            => /\ Reads(current_quote)
               /\ BackslashRun(i, h_quote_at) % 2 = 0]_vars
    /\ [][(pc = "scan" /\ i < len /\ in_quoted_string
             /\ \E j \in i..(i' - 1) :
                   /\ sql_content[j + 1] = current_quote
                   /\ BackslashRun(j, h_quote_at) % 2 = 0)
            => ~in_quoted_string']_vars
    /\ [](pc = "done" /\ sql_content = TextEscapedBackslash
            => (statements = <<SubSeq(TextEscapedBackslash, 1, 4)>>
                /\ h_seg_start = 5 /\ ~in_quoted_string))

\* C18 witness: in '\\'; the quote after the escaped backslash has closed the
\* region and the ';' has been read as a delimiter.
ClosedAfterEscapedBackslash ==
    /\ sql_content = TextEscapedBackslash
    /\ pc = "scan" /\ i = 5 /\ h_seg_start = 5
    /\ ~in_quoted_string
    /\ statements = <<SubSeq(TextEscapedBackslash, 1, 4)>>

\* C19: escape followed by an unrelated character.  Inside a region with
\* open quote q, a backslash whose next character is neither q nor a
\* backslash appends only the backslash and advances by one; the next
\* character is then the current character of a step inside the same
\* region, and a ';' or another quote character there is literal.
RegularEscapeRule ==
    /\ [][(Reads("\\") /\ in_quoted_string /\ i + 1 < len
             /\ sql_content[i + 2] \notin {current_quote, "\\"})
            => /\ current_statement' = Append(current_statement, "\\")
               /\ i' = i + 1
               /\ in_quoted_string' /\ current_quote' = current_quote
               /\ statements' = statements
               /\ pc' = "scan"]_vars
    /\ [][(pc = "scan" /\ 0 < i /\ i < len /\ in_quoted_string
             /\ sql_content[i] = "\\"
             /\ current_statement # <<>>
             /\ current_statement[Len(current_statement)] = "\\"
             /\ BackslashRun(i, h_quote_at) % 2 = 1
             /\ sql_content[i + 1] \in (AllQuoteChars \cup {";"}) \ {current_quote})
            => /\ current_statement' = Append(current_statement, sql_content[i + 1])
               /\ i' = i + 1
               /\ in_quoted_string' /\ current_quote' = current_quote
               /\ statements' = statements]_vars

\* C19 witness: inside a region opened by ', the backslash of \; has been
\* appended alone and the ';' after it has been appended as a literal.
SemicolonAfterRegularEscape ==
    /\ sql_content = <<"'", "\\", ";", "'", ";">>
    /\ pc = "scan" /\ i = 3
    /\ in_quoted_string /\ current_quote = "'"
    /\ current_statement = <<"'", "\\", ";">>
    /\ statements = <<>>

\* C20: escape at end of input.  When the last character of the text is a
\* backslash read inside a quoted region, only that backslash is appended,
\* the index becomes the length of the text, no lookahead is read, and the
\* buffer with the backslash last is emitted, trimmed, as the final statement.
EscapeAtEndOfInput ==
    /\ [][(Reads("\\") /\ in_quoted_string /\ i = len - 1)
            => /\ current_statement' = Append(current_statement, "\\")
               /\ i' = len
               /\ pc' = "scan"
               /\ in_quoted_string' /\ current_quote' = current_quote
               /\ statements' = statements]_vars
    /\ [](pc # "raised")
    /\ []((pc = "done" /\ in_quoted_string /\ len > 0
             /\ sql_content[len] = "\\"
             /\ BackslashRun(len, h_quote_at) % 2 = 1)
            => /\ current_statement[Len(current_statement)] = "\\"
               /\ Len(statements) >= 1
               /\ statements[Len(statements)] = Strip(current_statement)
               /\ statements[Len(statements)][Len(statements[Len(statements)])] = "\\")

\* C20 witness: the text 'a\ has been returned as one statement that ends
\* with the backslash.
TruncatedEscapeReturned ==
    /\ sql_content = <<"'", "a", "\\">>
    /\ pc = "done" /\ i = 3
    /\ in_quoted_string
    /\ statements = << <<"'", "a", "\\">> >>

(***************************************************************************)
(* Three calls on one parser object: a text, some other text, and the first *)
(* text again.                                                              *)
(***************************************************************************)
\* Texts of the first call: one character shorter than the exhaustive part.
ShortTexts == (UNION {[1..n -> Alphabet] : n \in 0..(MaxLen - 1)}) \cup Examples

\* Texts of the call in between; three of them end inside an open quote.
InterveningTexts ==
    {<<"'">>, <<"\"", "a", ";", "\\">>, <<Backtick, ";", "'">>, <<"a", ";", "b">>,
     TextUnterminated}

InitPurity ==
    /\ quote_chars = InitQuoteChars
    /\ escape_char = InitEscapeChar
    /\ sql_content \in ShortTexts
    /\ statements = <<>>
    /\ current_statement = <<>>
    /\ in_quoted_string = FALSE
    /\ current_quote = None
    /\ i = 0
    /\ pc = "scan"
    /\ h_seg_start = 0
    /\ h_quote_at = -1
    /\ h_spans = <<>>
    /\ h_fragments = NoFragments
    /\ h_returned = <<>>
    /\ other = NoOther
    /\ parse_file = NoFile
    /\ validation_results = <<>>
    /\ h_delims = 0
    /\ rotation = NoRotation
    /\ poller = NoPoller

\* the second call: parse_statements(y) for some other text y
OtherCall ==
    /\ Len(h_returned) = 0
    /\ \E y \in InterveningTexts : CallAgain(y, 0)

\* the third call: parse_statements on the text of the first call
SameCall ==
    /\ Len(h_returned) = 1
    /\ CallAgain(h_returned[1].text, 0)

NextPurity == Next \/ OtherCall \/ SameCall

PuritySpec == InitPurity /\ [][NextPurity]_vars

\* C14: purity.  No step of a call changes quote_chars or escape_char, which
\* keep the values __init__ gave them; and a call on a text returns what the
\* first call on a fresh parser returned for the same text, whatever call
\* was made in between, one that ended inside an open quote included.
Purity ==
    /\ [][quote_chars' = quote_chars /\ escape_char' = escape_char]_vars
    /\ [](quote_chars = InitQuoteChars /\ escape_char = InitEscapeChar)
    /\ []((pc = "scan" /\ i = 0)
            => (statements = <<>> /\ current_statement = <<>>
                /\ ~in_quoted_string /\ current_quote = None))
    /\ []((pc = "done" /\ Len(h_returned) = 2)
            => (/\ sql_content = h_returned[1].text
                /\ statements = h_returned[1].result
                /\ in_quoted_string = h_returned[1].in_quote))

\* C14 witness: A;B;C; has been split a second time, after a call that ended
\* inside an open quote, and gave A, B, C again.
SameResultAfterOpenQuote ==
    /\ pc = "done" /\ Len(h_returned) = 2
    /\ h_returned[1].text = TextOrder
    /\ h_returned[2].in_quote
    /\ statements = << <<"A">>, <<"B">>, <<"C">> >>

(***************************************************************************)
(* Two calls whose steps interleave.  Each call has its own locals; the     *)
(* running call's are the variables, the waiting call's are in other, and a *)
(* switch exchanges them.  Both calls read the same quote_chars and         *)
(* escape_char.  When both have returned, the text of one of them is split  *)
(* once more, alone.                                                        *)
(***************************************************************************)
\* The locals of the running call, as a record.
Locals ==
    [sql_content |-> sql_content, statements |-> statements,
     current_statement |-> current_statement,
     in_quoted_string |-> in_quoted_string, current_quote |-> current_quote,
     i |-> i, pc |-> pc, h_seg_start |-> h_seg_start, h_quote_at |-> h_quote_at,
     h_spans |-> h_spans, h_delims |-> h_delims]

\* Texts of the first of the two calls.
ConcurrentTexts == (UNION {[1..n -> Alphabet] : n \in 0..(MaxLen - 2)}) \cup {TextOrder}

InitConcurrent ==
    /\ quote_chars = InitQuoteChars
    /\ escape_char = InitEscapeChar
    /\ sql_content \in ConcurrentTexts
    /\ statements = <<>>
    /\ current_statement = <<>>
    /\ in_quoted_string = FALSE
    /\ current_quote = None
    /\ i = 0
    /\ pc = "scan"
    /\ h_seg_start = 0
    /\ h_quote_at = -1
    /\ h_spans = <<>>
    /\ h_fragments = NoFragments
    /\ h_returned = <<>>
    /\ \E y \in InterveningTexts : other = FreshLocals(y)
    /\ parse_file = NoFile
    /\ validation_results = <<>>
    /\ h_delims = 0
    /\ rotation = NoRotation
    /\ poller = NoPoller

\* Mutant of Switch: the quote state is not part of what is exchanged, as if
\* in_quoted_string and current_quote were stored on the parser object.
Switch_SharesQuoteState ==
    /\ h_returned = <<>>
    /\ other.pc = "scan" \/ (other.pc = "done" /\ pc = "done")
    /\ other' = Locals
    /\ sql_content' = other.sql_content
    /\ statements' = other.statements
    /\ current_statement' = other.current_statement
    /\ i' = other.i
    /\ pc' = other.pc
    /\ h_seg_start' = other.h_seg_start
    /\ h_quote_at' = other.h_quote_at
    /\ h_delims' = other.h_delims
    /\ UNCHANGED <<rotation, poller>>
    /\ h_spans' = other.h_spans
    /\ UNCHANGED <<in_quoted_string, current_quote>>
    /\ UNCHANGED <<quote_chars, escape_char, h_fragments, h_returned, parse_file,
                   validation_results>>

\* the interpreter switches from the running call to the waiting one
Switch ==
    /\ h_returned = <<>>
    /\ other.pc = "scan" \/ (other.pc = "done" /\ pc = "done")
    /\ other' = Locals
    /\ sql_content' = other.sql_content
    /\ statements' = other.statements
    /\ current_statement' = other.current_statement
    /\ in_quoted_string' = other.in_quoted_string
    /\ current_quote' = other.current_quote
    /\ i' = other.i
    /\ pc' = other.pc
    /\ h_seg_start' = other.h_seg_start
    /\ h_quote_at' = other.h_quote_at
    /\ h_delims' = other.h_delims
    /\ UNCHANGED <<rotation, poller>>
    /\ h_spans' = other.h_spans
    /\ UNCHANGED <<quote_chars, escape_char, h_fragments, h_returned, parse_file,
                   validation_results>>

\* after both calls returned: parse_statements on the text of one, alone
AloneCall ==
    /\ h_returned = <<>>
    /\ other.pc = "done"
    /\ CallAgain(sql_content, 0)

NextConcurrent == Next \/ Switch \/ AloneCall

ConcurrentSpec == InitConcurrent /\ [][NextConcurrent]_vars

\* C15: independent concurrent calls.  A step of one call leaves the locals
\* of the other call as they are, a switch only exchanges the two sets of
\* locals, and whatever the interleaving each of the two calls returns the
\* list that a call on its text returns when run alone.
IndependentCalls ==
    /\ [][\/ other' = other
          \/ (other' = Locals /\ Locals' = other)]_vars
    /\ []((pc = "done" /\ Len(h_returned) = 1)
            => (/\ sql_content = h_returned[1].text
                /\ statements = h_returned[1].result
                /\ h_spans = h_returned[1].spans
                /\ in_quoted_string = h_returned[1].in_quote))

\* C15 witness: A;B;C; was split by a call interleaved with one that ended
\* inside an open quote, then split alone, with the same result.
InterleavedThenAlone ==
    /\ pc = "done" /\ Len(h_returned) = 1
    /\ sql_content = TextOrder
    /\ other.pc = "done" /\ other.in_quoted_string
    /\ statements = << <<"A">>, <<"B">>, <<"C">> >>

(***************************************************************************)
(* parse_file (lines 101-124).  The file is a sequence of bytes; each open  *)
(* or read may fail with an OSError; decoding is modelled by what the codec *)
(* does to the bytes of FileBytes.  The bytes are the same at both          *)
(* attempts.  In this specification parse_statements is not running         *)
(* (pc = "idle") until parse_file calls it.                                 *)
(***************************************************************************)
MaxFileLen == 3

\* LF, CR, ' ; \ a, and three bytes above 127: a UTF-8 continuation byte, the
\* lead byte of a two-byte sequence, and a byte that is never valid UTF-8.
FileBytes == {10, 13, 39, 59, 92, 97, 169, 195, 255}

Files == UNION {[1..n -> FileBytes] : n \in 0..MaxFileLen}

\* The character of a code point; characters above 127 are spelled by name.
Chr(cp) ==
    CASE cp = 10  -> "\n"
      [] cp = 13  -> "\r"
      [] cp = 39  -> "'"
      [] cp = 59  -> ";"
      [] cp = 92  -> "\\"
      [] cp = 97  -> "a"
      [] cp = 169 -> "U+00A9"
      [] cp = 195 -> "U+00C3"
      [] cp = 233 -> "U+00E9"
      [] cp = 255 -> "U+00FF"

\* encoding='utf-8': a byte below 128 is its character; a lead byte 194..223
\* followed by a continuation byte 128..191 is one character; any other byte
\* of FileBytes at that place is a UnicodeDecodeError.
RECURSIVE Utf8Decode(_)
Utf8Decode(bs) ==
    IF Len(bs) = 0 THEN [ok |-> TRUE, text |-> <<>>]
    ELSE IF bs[1] < 128
    THEN LET rest == Utf8Decode(SubSeq(bs, 2, Len(bs)))
         IN  IF rest.ok THEN [ok |-> TRUE, text |-> <<Chr(bs[1])>> \o rest.text]
                        ELSE rest
    ELSE IF bs[1] \in 194..223 /\ Len(bs) >= 2 /\ bs[2] \in 128..191
    THEN LET rest == Utf8Decode(SubSeq(bs, 3, Len(bs)))
         IN  IF rest.ok
             THEN [ok |-> TRUE,
                   text |-> <<Chr((bs[1] % 32) * 64 + (bs[2] % 64))>> \o rest.text]
             ELSE rest
    ELSE [ok |-> FALSE, text |-> <<>>]

\* encoding='latin-1': every byte is the character of the same code point
Latin1Decode(bs) == [k \in 1..Len(bs) |-> Chr(bs[k])]

\* open(..., 'r') without newline=: "\r\n" and "\r" are read as "\n"
RECURSIVE TranslateNewlines(_)
TranslateNewlines(s) ==
    IF Len(s) = 0 THEN <<>>
    ELSE IF s[1] = "\r"
    THEN <<"\n">> \o TranslateNewlines(IF Len(s) >= 2 /\ s[2] = "\n"
                                       THEN SubSeq(s, 3, Len(s))
                                       ELSE SubSeq(s, 2, Len(s)))
    ELSE <<s[1]>> \o TranslateNewlines(SubSeq(s, 2, Len(s)))

\* what f.read() returns under an encoding that decodes the file
ReadAs(encoding, bs) ==
    TranslateNewlines(IF encoding = "utf-8" THEN Utf8Decode(bs).text
                                            ELSE Latin1Decode(bs))

InitFile ==
    /\ quote_chars = InitQuoteChars
    /\ escape_char = InitEscapeChar
    /\ sql_content = <<>>
    /\ statements = <<>>
    /\ current_statement = <<>>
    /\ in_quoted_string = FALSE
    /\ current_quote = None
    /\ i = 0
    /\ pc = "idle"
    /\ h_seg_start = 0
    /\ h_quote_at = -1
    /\ h_spans = <<>>
    /\ h_fragments = NoFragments
    /\ h_returned = <<>>
    /\ other = NoOther
    /\ \E bs \in Files : parse_file = [NoFile EXCEPT !.pc = "utf-8", !.bytes = bs]
    /\ validation_results = <<>>
    /\ h_delims = 0
    /\ rotation = NoRotation
    /\ poller = NoPoller

FileFrame ==
    UNCHANGED <<quote_chars, escape_char, sql_content, statements, current_statement,
                in_quoted_string, current_quote, i, pc, h_seg_start, h_quote_at,
                h_spans, h_fragments, h_returned, other, validation_results, h_delims,
                rotation, poller>>

\* Mutant of ReadUtf8: the fallback is taken on any failure of the first
\* attempt, as if line 115 read "except Exception".
ReadUtf8_FallbackOnAnyError ==
    /\ parse_file.pc = "utf-8"
    /\ \E os_error \in BOOLEAN :
          LET d == Utf8Decode(parse_file.bytes)
              outcome == IF os_error THEN "OSError"
                         ELSE IF d.ok THEN "ok" ELSE "UnicodeDecodeError"
          IN  parse_file' =
                [parse_file EXCEPT
                   !.attempts = Append(@, [encoding |-> "utf-8", outcome |-> outcome]),
                   !.content = IF outcome = "ok" THEN ReadAs("utf-8", parse_file.bytes)
                                                 ELSE @,
                   !.pc = IF outcome = "ok" THEN "call" ELSE "latin-1"]
    /\ FileFrame

\* lines 111-113, 115, 123-124: open and read the file as UTF-8.  A decode
\* error leads to the second attempt; any other error is raised as
\* Exception("Error reading file ...").
ReadUtf8 ==
    /\ parse_file.pc = "utf-8"
    /\ \E os_error \in BOOLEAN :
          LET d == Utf8Decode(parse_file.bytes)
              outcome == IF os_error THEN "OSError"
                         ELSE IF d.ok THEN "ok" ELSE "UnicodeDecodeError"
          IN  parse_file' =
                [parse_file EXCEPT
                   !.attempts = Append(@, [encoding |-> "utf-8", outcome |-> outcome]),
                   !.content = IF outcome = "ok" THEN ReadAs("utf-8", parse_file.bytes)
                                                 ELSE @,
                   !.pc = CASE outcome = "ok" -> "call"
                            [] outcome = "UnicodeDecodeError" -> "latin-1"
                            [] OTHER -> "raised",
                   !.exception = IF outcome = "OSError" THEN "Error reading file"
                                                        ELSE @]
    /\ FileFrame

\* lines 117-119, 121-122: open and read the file as Latin-1, which decodes
\* every byte.  An error is raised as Exception("Could not read file ...").
ReadLatin1 ==
    /\ parse_file.pc = "latin-1"
    /\ \E os_error \in BOOLEAN :
          LET outcome == IF os_error THEN "OSError" ELSE "ok"
          IN  parse_file' =
                [parse_file EXCEPT
                   !.attempts = Append(@, [encoding |-> "latin-1", outcome |-> outcome]),
                   !.content = IF outcome = "ok" THEN ReadAs("latin-1", parse_file.bytes)
                                                 ELSE @,
                   !.pc = IF outcome = "ok" THEN "call" ELSE "raised",
                   !.exception = IF outcome = "OSError" THEN "Could not read file"
                                                        ELSE @]
    /\ FileFrame

\* lines 114 and 120: self.parse_statements(content) is called
InvokeParseStatements ==
    /\ parse_file.pc = "call"
    /\ parse_file' = [parse_file EXCEPT !.pc = "parsing", !.invoked = @ + 1]
    /\ sql_content' = parse_file.content
    /\ statements' = <<>>
    /\ current_statement' = <<>>
    /\ in_quoted_string' = FALSE
    /\ current_quote' = None
    /\ i' = 0
    /\ pc' = "scan"
    /\ h_seg_start' = 0
    /\ h_quote_at' = -1
    /\ h_delims' = 0
    /\ UNCHANGED <<rotation, poller>>
    /\ h_spans' = <<>>
    /\ UNCHANGED <<quote_chars, escape_char, h_fragments, h_returned, other,
                   validation_results>>

\* lines 114 and 120: parse_file returns what parse_statements returned; an
\* exception out of parse_statements is caught by line 123 or line 121 and
\* raised again as Exception.
ReturnStatements ==
    /\ parse_file.pc = "parsing"
    /\ pc \in {"done", "raised"}
    /\ parse_file' =
         [parse_file EXCEPT
            !.pc = IF pc = "done" THEN "returned" ELSE "raised",
            !.exception = IF pc = "done" THEN @
                          ELSE IF Len(parse_file.attempts) = 1
                               THEN "Error reading file"
                               ELSE "Could not read file"]
    /\ FileFrame

NextFile == Next \/ ReadUtf8 \/ ReadLatin1 \/ InvokeParseStatements \/ ReturnStatements

FileSpec == InitFile /\ [][NextFile]_vars

\* C16: source reader protocol of parse_file.  The first attempt is UTF-8;
\* there is a second attempt, as Latin-1, exactly when the first failed with
\* a decode error; parse_statements is invoked at most once, and only on the
\* text that the last attempt read and decoded; when the last attempt failed
\* parse_file raises an exception and parse_statements was never invoked.
SourceReaderProtocol ==
    LET a == parse_file.attempts
        finished == parse_file.pc \in {"returned", "raised"}
    IN  /\ Len(a) <= 2
        /\ Len(a) >= 1 => a[1].encoding = "utf-8"
        /\ Len(a) = 2 => a[2].encoding = "latin-1" /\ a[1].outcome = "UnicodeDecodeError"
        /\ (Len(a) >= 1 /\ a[1].outcome = "UnicodeDecodeError")
              => (Len(a) = 2 \/ parse_file.pc = "latin-1")
        /\ parse_file.pc = "utf-8" <=> a = <<>>
        /\ parse_file.invoked <= 1
        /\ parse_file.invoked = 0 => pc = "idle"
        /\ parse_file.invoked = 1 =>
              /\ a[Len(a)].outcome = "ok"
              /\ sql_content = ReadAs(a[Len(a)].encoding, parse_file.bytes)
              /\ a[Len(a)].encoding = "utf-8" => Utf8Decode(parse_file.bytes).ok
        /\ (finished /\ a[Len(a)].outcome # "ok") =>
              /\ parse_file.pc = "raised"
              /\ parse_file.exception # None
              /\ parse_file.invoked = 0
        /\ parse_file.pc = "returned" => (pc = "done" /\ parse_file.invoked = 1)

\* C16 witness: the bytes 27 FF 3B are not UTF-8; the Latin-1 attempt read
\* them and parse_file returned one statement.
Latin1FallbackReturned ==
    /\ parse_file.pc = "returned"
    /\ parse_file.bytes = <<39, 255, 59>>
    /\ Len(parse_file.attempts) = 2
    /\ statements = << <<"'", "U+00FF", ";">> >>

(***************************************************************************)
(* validate_statements (lines 126-152) and the counts main prints under     *)
(* --validate (lines 192-205), applied to the list a call returned.         *)
(***************************************************************************)
LowerLetters ==
    <<"a", "b", "c", "d", "e", "f", "g", "h", "i", "j", "k", "l", "m",
      "n", "o", "p", "q", "r", "s", "t", "u", "v", "w", "x", "y", "z">>

UpperLetters ==
    <<"A", "B", "C", "D", "E", "F", "G", "H", "I", "J", "K", "L", "M",
      "N", "O", "P", "Q", "R", "S", "T", "U", "V", "W", "X", "Y", "Z">>

\* str.upper(), on the characters of the model
Upper(s) ==
    [k \in 1..Len(s) |->
        IF \E n \in 1..26 : LowerLetters[n] = s[k]
        THEN UpperLetters[CHOOSE n \in 1..26 : LowerLetters[n] = s[k]]
        ELSE s[k]]

\* str.startswith(('INSERT', 'UPDATE', 'REPLACE'))
StartsWithUpsert(s) ==
    \E w \in {<<"I", "N", "S", "E", "R", "T">>, <<"U", "P", "D", "A", "T", "E">>,
              <<"R", "E", "P", "L", "A", "C", "E">>} :
        Len(s) >= Len(w) /\ SubSeq(s, 1, Len(w)) = w

\* str.count(c) for a one-character c
Count(s, c) == Cardinality({k \in 1..Len(s) : s[k] = c})

\* Mutant of ValidateStatements: has_semicolon looks at the last character only.
ValidateStatements_EndsWithSemicolon(stmts) ==
    [k \in 1..Len(stmts) |->
        [index |-> k,
         statement |-> stmts[k],
         length |-> Len(stmts[k]),
         is_empty |-> Strip(stmts[k]) = <<>>,
         starts_with_upsert |-> StartsWithUpsert(Upper(Strip(stmts[k]))),
         has_semicolon |-> Len(stmts[k]) > 0 /\ stmts[k][Len(stmts[k])] = ";",
         quote_count_single |-> Count(stmts[k], "'"),
         quote_count_double |-> Count(stmts[k], "\""),
         quote_count_backtick |-> Count(stmts[k], Backtick)]]

\* lines 136-152: one record per statement
ValidateStatements(stmts) ==
    [k \in 1..Len(stmts) |->
        [index |-> k,
         statement |-> stmts[k],
         length |-> Len(stmts[k]),
         is_empty |-> Strip(stmts[k]) = <<>>,
         starts_with_upsert |-> StartsWithUpsert(Upper(Strip(stmts[k]))),
         has_semicolon |-> \E p \in 1..Len(stmts[k]) : stmts[k][p] = ";",
         quote_count_single |-> Count(stmts[k], "'"),
         quote_count_double |-> Count(stmts[k], "\""),
         quote_count_backtick |-> Count(stmts[k], Backtick)]]

\* line 200: semicolon_count
semicolon_count ==
    Cardinality({k \in 1..Len(validation_results) : validation_results[k].has_semicolon})

\* line 193: validation_results = sql_parser.validate_statements(statements)
Validate ==
    /\ pc = "done"
    /\ validation_results' = ValidateStatements(statements)
    /\ pc' = "validated"
    /\ UNCHANGED <<quote_chars, escape_char, sql_content, statements, current_statement,
                   in_quoted_string, current_quote, i, h_seg_start, h_quote_at,
                   h_spans, h_fragments, h_returned, other, parse_file, h_delims,
                   rotation, poller>>

NextValidate == Next \/ Validate

ValidateSpec == Init /\ [][NextValidate]_vars

\* C17 as stated: for a text whose quoted regions are all closed, no returned
\* statement has has_semicolon and the report counts 0 statements with
\* semicolons.
NoStatementHasSemicolon ==
    (pc = "validated" /\ ~in_quoted_string) =>
        /\ \A k \in 1..Len(validation_results) : ~validation_results[k].has_semicolon
        /\ semicolon_count = 0

\* C17 amended: a ';' enters a statement only when it is read inside a
\* quoted region; for a text whose quoted regions are all closed,
\* has_semicolon of a returned statement is true exactly when the statement
\* holds a ';', every such ';' comes after a quote character of the
\* statement, and the report counts the statements that hold a ';'.
HasSemicolonMeansQuotedSemicolon ==
    /\ [][(InLoop /\ char = ";" /\ Len(current_statement') > Len(current_statement))
            => in_quoted_string]_vars
    /\ []((pc = "validated" /\ ~in_quoted_string) =>
            /\ Len(validation_results) = Len(statements)
            /\ \A k \in 1..Len(statements) :
                  LET s == statements[k]
                      at == {p \in 1..Len(s) : s[p] = ";"}
                  IN  /\ validation_results[k].statement = s
                      /\ validation_results[k].has_semicolon <=> at # {}
                      /\ \A p \in at : \E q \in 1..(p - 1) : s[q] \in AllQuoteChars
            /\ semicolon_count =
                 Cardinality({k \in 1..Len(statements) :
                                 \E p \in 1..Len(statements[k]) : statements[k][p] = ";"}))

\* C17 witness: INSERT INTO t (name) VALUES ('a;b'); was split and validated;
\* its one statement is an upsert and has a semicolon.
QuotedSemicolonValidated ==
    /\ pc = "validated"
    /\ sql_content = TextQuotedSemicolon
    /\ ~in_quoted_string
    /\ Len(validation_results) = 1
    /\ validation_results[1].has_semicolon
    /\ validation_results[1].starts_with_upsert
    /\ semicolon_count = 1

\* A backtick region that holds an escaped backtick and a ';': `\`;`
TextBacktickEscape == <<Backtick, "\\", Backtick, ";", Backtick>>

\* C21: uniform escape rule for backtick.  Inside a backtick region a
\* backslash immediately followed by a backtick is consumed as a pair and the
\* region stays open; and for each of the three quote characters q alike, a
\* backslash read inside a region opened by q advances by two exactly when the
\* next character is q or a backslash, and otherwise by one, the region
\* staying open on q either way.  `\`;` is returned whole as one statement.
UniformBacktickEscape ==
    /\ [][(Reads("\\") /\ in_quoted_string /\ current_quote = Backtick
             /\ i + 1 < len /\ sql_content[i + 2] = Backtick)
            => /\ current_statement' = current_statement \o <<"\\", Backtick>>
               /\ i' = i + 2
               /\ in_quoted_string'
               /\ current_quote' = Backtick
               /\ statements' = statements]_vars
    /\ [][\A q \in AllQuoteChars :
            (Reads("\\") /\ in_quoted_string /\ current_quote = q /\ i + 1 < len)
               => /\ i' = (IF sql_content[i + 2] \in {q, "\\"} THEN i + 2 ELSE i + 1)
                  /\ current_statement' = current_statement \o Slice(i, i')
                  /\ in_quoted_string'
                  /\ current_quote' = q]_vars
    /\ [](pc = "done" /\ sql_content = TextBacktickEscape
            => statements = <<TextBacktickEscape>>)

\* C21 witness: in `\`;` the pair \` has just been consumed and the backtick
\* region is still open, the ';' being the next character.
BacktickPairConsumed ==
    /\ sql_content = TextBacktickEscape
    /\ pc = "scan" /\ i = 3
    /\ in_quoted_string /\ current_quote = Backtick
    /\ current_statement = <<Backtick, "\\", Backtick>>

\* A backslash before a top-level ';' and before a quote: \;\';
TextBackslashUnquoted == <<"\\", ";", "\\", "'", ";">>

\* C22: backslash has no escape meaning outside a quoted region.  Read while
\* unquoted it is appended alone and the scan advances by one, still
\* unquoted; the character after it is then read as usual: a quote character
\* opens a region and a ';' ends the statement, whose last character is the
\* backslash.  \;\'; returns \ and \'; (the quote opened a region).
BackslashUnquoted ==
    /\ [][(Reads("\\") /\ ~in_quoted_string)
            => /\ current_statement' = Append(current_statement, "\\")
               /\ i' = i + 1
               /\ ~in_quoted_string' /\ current_quote' = None
               /\ statements' = statements]_vars
    /\ [][(Reads("\\") /\ ~in_quoted_string /\ i + 1 < len)
            => (/\ pc = "scan" /\ ~in_quoted_string
                /\ char = sql_content[i + 1]
                /\ current_statement[Len(current_statement)] = "\\")']_vars
    /\ [][\A q \in AllQuoteChars :
            (Reads(q) /\ ~in_quoted_string /\ i > 0 /\ sql_content[i] = "\\")
               => /\ in_quoted_string' /\ current_quote' = q
                  /\ h_quote_at' = i
                  /\ current_statement' = Append(current_statement, q)]_vars
    /\ [][(Reads(";") /\ ~in_quoted_string /\ i > 0 /\ sql_content[i] = "\\")
            => /\ current_statement[Len(current_statement)] = "\\"
               /\ statements' = Append(statements, Strip(current_statement))
               /\ current_statement' = <<>>
               /\ ~in_quoted_string']_vars
    /\ [](pc = "done" /\ sql_content = TextBackslashUnquoted
            => statements = << <<"\\">>, <<"\\", "'", ";">> >>)

\* C22 witness: in \;\'; the ';' after the first backslash has ended the
\* statement \ and the quote after the second backslash has opened a region.
QuoteOpenedAfterBackslash ==
    /\ sql_content = TextBackslashUnquoted
    /\ pc = "scan" /\ i = 4
    /\ statements = << <<"\\">> >>
    /\ in_quoted_string /\ current_quote = "'"
    /\ h_quote_at = 3

\* s is a contiguous substring of the input
IsSubstring(s) == \E from \in 0..len : \E to \in from..len : s = Slice(from, to)

\* C23: character conservation.  Every step of the scan either appends the
\* characters it consumes to the buffer, in input order, or consumes one ';'
\* read outside a quoted region and appends nothing; so the buffer is always
\* the input between the last such ';' and the index, the segments and their
\* ';' make up the input read so far, and every emitted statement is a
\* contiguous substring of the input (its untrimmed segment, trimmed).
CharacterConservation ==
    /\ [][(pc = "scan" /\ i < len)
            => /\ i' > i
               /\ \/ /\ current_statement' = current_statement \o Slice(i, i')
                     /\ statements' = statements
                     /\ ~(Reads(";") /\ ~in_quoted_string)
                  \/ /\ Reads(";") /\ ~in_quoted_string
                     /\ i' = i + 1
                     /\ current_statement' = <<>>
                     /\ h_seg_start' = i'
                     /\ statements' \in {statements,
                                         Append(statements, Strip(Slice(h_seg_start, i)))}]_vars
    /\ [](/\ 0 <= h_seg_start /\ h_seg_start <= i /\ i <= len
          /\ current_statement = Slice(h_seg_start, i)
          /\ Slice(0, h_seg_start) \o current_statement = Slice(0, i)
          /\ h_seg_start > 0 => sql_content[h_seg_start] = ";"
          /\ Len(h_spans) = Len(statements)
          /\ \A k \in 1..Len(statements) :
                /\ statements[k] = Strip(Slice(h_spans[k][1], h_spans[k][2]))
                /\ IsSubstring(statements[k])
                /\ h_spans[k][2] <= h_seg_start \/ pc = "done"
                /\ k > 1 => h_spans[k - 1][2] < h_spans[k][1])
    /\ [](pc = "done" => i = len)

\* C23 witness: UPDATE t SET name = 'O\'Brien' WHERE id = 1; was returned as
\* the 43 characters before its ';', the escaped pair included.
EscapedPairConserved ==
    /\ pc = "done"
    /\ sql_content = TextEscapedQuote
    /\ h_spans = << <<0, 43>> >>
    /\ statements = <<Slice(0, 43)>>
    /\ current_statement = <<>>

\* the total length of the statements of a list
RECURSIVE TotalLength(_)
TotalLength(stmts) ==
    IF stmts = <<>> THEN 0 ELSE Len(Head(stmts)) + TotalLength(Tail(stmts))

\* C24 as stated: in every state, the final one included, the length of the
\* buffer plus the total length of the emitted statements is at most the
\* number of characters consumed so far.
BufferPlusEmittedBounded ==
    Len(current_statement) + TotalLength(statements) <= i

\* C24 amended: size bound.  In every state of the loop, the end of the input
\* included, the length of the buffer plus the total length of the emitted
\* statements is at most the number of characters consumed so far, which is
\* at most the length of the input; after the final emission the buffer is
\* still what it was, and the emitted statements alone hold at most the
\* input; h_delims counts the ';' read outside a quoted region, and the
\* number of emitted statements is at most one more than that.
SizeBound ==
    /\ [](/\ pc = "scan" => Len(current_statement) + TotalLength(statements) <= i
          /\ TotalLength(statements) <= i
          /\ i <= len
          /\ Len(statements) <= h_delims + 1
          /\ pc = "scan" => Len(statements) <= h_delims)
    /\ [][(pc = "scan" /\ i < len)
            => h_delims' = (IF Reads(";") /\ ~in_quoted_string THEN h_delims + 1
                                                                ELSE h_delims)]_vars
    /\ [][(pc = "scan" /\ ~(i < len))
            => /\ h_delims' = h_delims
               /\ current_statement' = current_statement]_vars

\* C24 witness: SELECT 1 was returned: no ';' was read, one statement was
\* emitted, it holds all eight characters of the input, and so does the
\* buffer.
BoundsReached ==
    /\ pc = "done"
    /\ sql_content = TextNoTrailing
    /\ h_delims = 0
    /\ Len(statements) = h_delims + 1
    /\ TotalLength(statements) = len
    /\ current_statement = sql_content

(***************************************************************************)
(* lambda_function.py: the key rotation handler's loop over the access keys *)
(* of one user (lines 232-274) and rotate_access_key (lines 336-393; the    *)
(* Secrets Manager variant, lines 750-784, makes the same calls in the same *)
(* order).  Every IAM call may fail; create_access_key fails when the user  *)
(* already has KeyLimit keys, delete_access_key fails when the key is gone. *)
(***************************************************************************)
\* the two-key limit of line 361
KeyLimit == 2

\* the access key ids a user may start with; new keys get the next ids
InitialKeyIds == {1, 2}

\* the set s of numbers as an ascending sequence
RECURSIVE Ascending(_)
Ascending(s) ==
    IF s = {} THEN <<>>
    ELSE LET least == CHOOSE x \in s : \A y \in s : x <= y
         IN  <<least>> \o Ascending(s \ {least})

\* No step of the handler touches the parser, the file reader or the poller.
RotationFrame ==
    UNCHANGED <<quote_chars, escape_char, sql_content, statements, current_statement,
                in_quoted_string, current_quote, i, pc, h_seg_start, h_quote_at,
                h_spans, h_fragments, h_returned, other, parse_file,
                validation_results, h_delims, poller>>

InitRotation ==
    /\ quote_chars = InitQuoteChars
    /\ escape_char = InitEscapeChar
    /\ sql_content = <<>>
    /\ statements = <<>>
    /\ current_statement = <<>>
    /\ in_quoted_string = FALSE
    /\ current_quote = None
    /\ i = 0
    /\ pc = "idle"
    /\ h_seg_start = 0
    /\ h_quote_at = -1
    /\ h_spans = <<>>
    /\ h_fragments = NoFragments
    /\ h_returned = <<>>
    /\ other = NoOther
    /\ parse_file = NoFile
    /\ validation_results = <<>>
    /\ h_delims = 0
    /\ poller = NoPoller
    /\ \E keys \in SUBSET InitialKeyIds : \E old \in SUBSET keys : \E dry \in BOOLEAN :
          rotation = [pc |-> "get_user_access_keys",
                      DRY_RUN |-> dry,
                      iam_keys |-> keys,          \* the keys IAM holds for the user
                      old_keys |-> old,           \* Active and older than ROTATION_DAYS
                      next_id |-> 3,
                      access_keys |-> <<>>,
                      k |-> 0,
                      old_key_id |-> 0,
                      existing_keys |-> 0,
                      new_key_id |-> 0,
                      calls |-> <<>>,             \* history: the IAM calls of this rotation
                      success |-> FALSE,
                      keys_rotated |-> 0,
                      errors |-> 0]

\* line 236: access_keys = get_user_access_keys(user_name); an exception ends
\* the work on this user (lines 268-274)
HandlerListKeys ==
    /\ rotation.pc = "get_user_access_keys"
    /\ \E ok \in BOOLEAN :
          rotation' = IF ok
                      THEN [rotation EXCEPT !.access_keys = Ascending(rotation.iam_keys),
                                            !.k = 1, !.pc = "for_key"]
                      ELSE [rotation EXCEPT !.errors = @ + 1, !.pc = "user_error"]
    /\ RotationFrame

\* lines 239-249 and 346-354: the next key of the list; a key that needs
\* rotation is passed to rotate_access_key, which returns at once under DRY_RUN
HandlerForKey ==
    /\ rotation.pc = "for_key"
    /\ rotation' =
         IF rotation.k > Len(rotation.access_keys)
         THEN [rotation EXCEPT !.pc = "end"]
         ELSE IF rotation.access_keys[rotation.k] \notin rotation.old_keys
         THEN [rotation EXCEPT !.k = @ + 1]
         ELSE IF rotation.DRY_RUN
         THEN [rotation EXCEPT !.old_key_id = rotation.access_keys[rotation.k],
                               !.calls = <<>>, !.success = TRUE, !.pc = "rotation_result"]
         ELSE [rotation EXCEPT !.old_key_id = rotation.access_keys[rotation.k],
                               !.calls = <<>>, !.pc = "existing_keys"]
    /\ RotationFrame

\* line 359: existing_keys = get_user_access_keys(user_name)
RotateListKeys ==
    /\ rotation.pc = "existing_keys"
    /\ \E ok \in BOOLEAN :
          rotation' =
            IF ok
            THEN [rotation EXCEPT
                    !.existing_keys = Cardinality(rotation.iam_keys),
                    !.pc = IF Cardinality(rotation.iam_keys) >= KeyLimit
                           THEN "delete_first" ELSE "create"]
            ELSE [rotation EXCEPT !.success = FALSE, !.pc = "rotation_result"]
    /\ RotationFrame

\* lines 361-365: the user has two keys, the old key is deleted first
DeleteOldFirst ==
    /\ rotation.pc = "delete_first"
    /\ \E ok \in {rotation.old_key_id \in rotation.iam_keys, FALSE} :
          rotation' =
            [rotation EXCEPT
               !.calls = Append(@, [op |-> "delete_access_key",
                                    key |-> rotation.old_key_id, ok |-> ok]),
               !.iam_keys = IF ok THEN @ \ {rotation.old_key_id} ELSE @,
               !.success = FALSE,
               !.pc = IF ok THEN "create" ELSE "rotation_result"]
    /\ RotationFrame

\* lines 367-373: create_access_key
CreateAccessKey ==
    /\ rotation.pc = "create"
    /\ \E ok \in {Cardinality(rotation.iam_keys) < KeyLimit, FALSE} :
          rotation' =
            [rotation EXCEPT
               !.calls = Append(@, [op |-> "create_access_key",
                                    key |-> rotation.next_id, ok |-> ok]),
               !.iam_keys = IF ok THEN @ \cup {rotation.next_id} ELSE @,
               !.new_key_id = IF ok THEN rotation.next_id ELSE @,
               !.next_id = IF ok THEN @ + 1 ELSE @,
               !.success = ok /\ ~(rotation.existing_keys < KeyLimit),
               !.pc = IF ok /\ rotation.existing_keys < KeyLimit
                      THEN "delete_after" ELSE "rotation_result"]
    /\ RotationFrame

\* lines 375-378: the old key was not deleted before, it is deleted now
DeleteOldAfter ==
    /\ rotation.pc = "delete_after"
    /\ \E ok \in {rotation.old_key_id \in rotation.iam_keys, FALSE} :
          rotation' =
            [rotation EXCEPT
               !.calls = Append(@, [op |-> "delete_access_key",
                                    key |-> rotation.old_key_id, ok |-> ok]),
               !.iam_keys = IF ok THEN @ \ {rotation.old_key_id} ELSE @,
               !.success = ok,
               !.pc = "rotation_result"]
    /\ RotationFrame

\* lines 251-266: the handler counts the result and goes to the next key
HandlerResult ==
    /\ rotation.pc = "rotation_result"
    /\ rotation' =
         [rotation EXCEPT
            !.keys_rotated = IF rotation.success THEN @ + 1 ELSE @,
            !.errors = IF rotation.success THEN @ ELSE @ + 1,
            !.k = @ + 1,
            !.pc = "for_key"]
    /\ RotationFrame

NextRotation ==
    \/ HandlerListKeys
    \/ HandlerForKey
    \/ RotateListKeys
    \/ DeleteOldFirst
    \/ CreateAccessKey
    \/ DeleteOldAfter
    \/ HandlerResult

RotationSpec == InitRotation /\ [][NextRotation]_vars

\* C25: create before delete.  In every rotation that is not a dry run, a
\* call of delete_access_key for the old key comes after a call of
\* create_access_key, and when create_access_key fails the old key is still
\* one of the user's keys.
CreateBeforeDelete ==
    /\ \A n \in 1..Len(rotation.calls) :
          rotation.calls[n].op = "delete_access_key"
             => \E m \in 1..(n - 1) : rotation.calls[m].op = "create_access_key"
    /\ (/\ rotation.pc = "rotation_result"
        /\ rotation.calls # <<>>
        /\ rotation.calls[Len(rotation.calls)].op = "create_access_key"
        /\ ~rotation.calls[Len(rotation.calls)].ok)
          => rotation.old_key_id \in rotation.iam_keys

(***************************************************************************)
(* A statement of a returned call, or the untrimmed segment it was trimmed  *)
(* from, is given to a second call.                                         *)
(***************************************************************************)
\* parse_statements(s) for the k-th statement s of the result, or for the
\* segment of the input that s is the strip() of
StatementCall ==
    /\ h_returned = <<>>
    /\ \E k \in 1..Len(statements) :
          \E text \in {statements[k], Slice(h_spans[k][1], h_spans[k][2])} :
             CallAgain(text, k)

NextStatement == Next \/ StatementCall

StatementSpec == Init /\ [][NextStatement]_vars

\* C26: statement idempotence.  A call on a statement s of a returned result
\* returns exactly the list that holds s alone, and so does a call on the
\* untrimmed segment s was trimmed from; the scan of either reads no ';'
\* outside a quoted region.
StatementIdempotence ==
    /\ [](Len(h_returned) = 1 => h_delims = 0)
    /\ []((pc = "done" /\ Len(h_returned) = 1)
            => /\ Strip(sql_content) = h_returned[1].result[h_returned[1].cut]
               /\ statements = <<h_returned[1].result[h_returned[1].cut]>>)

\* C26 witness: the one statement of INSERT INTO t (name) VALUES ('a;b'); was
\* split again and came back alone.
StatementSplitAgain ==
    /\ pc = "done" /\ Len(h_returned) = 1
    /\ h_returned[1].text = TextQuotedSemicolon
    /\ sql_content = SubSeq(TextQuotedSemicolon, 1, 35)
    /\ statements = <<sql_content>>

\* A literal that holds a doubled quote and a ';': ''';'
TextDoubledQuote == <<"'", "'", "'", ";", "'">>

\* C27 as stated: whenever the second of two consecutive q is read and the
\* first was passed inside a region opened by q (it closed the region, or it
\* was passed inside the region that is still open on q), the scanner is in
\* InQuote(q) after it.
DoubledQuoteAlwaysReopens ==
    [][\A q \in AllQuoteChars :
         (/\ Reads(q) /\ i > 0 /\ sql_content[i] = q
          /\ \/ ~in_quoted_string
             \/ (in_quoted_string /\ current_quote = q /\ h_quote_at < i - 1))
            => (in_quoted_string' /\ current_quote' = q)]_vars

\* C27 amended: doubled quotes.  Inside a region opened by q, the first of
\* two consecutive q, when it is read as the current character (it is not the
\* second character of a backslash pair), closes the region and is
\* appended, the second is then read
\* outside a region, opens a region on q again and is appended; nothing is
\* emitted by either step, and a ';' read right after the second q is
\* appended inside the region.  ''';' is returned whole as one statement.
DoubledQuote ==
    /\ [][\A q \in AllQuoteChars :
            (Reads(q) /\ in_quoted_string /\ current_quote = q
               /\ i + 1 < len /\ sql_content[i + 2] = q)
               => /\ ~in_quoted_string' /\ current_quote' = None
                  /\ current_statement' = Append(current_statement, q)
                  /\ statements' = statements
                  /\ i' = i + 1
                  /\ (Reads(q) /\ pc = "scan")']_vars
    /\ [][\A q \in AllQuoteChars :
            (Reads(q) /\ ~in_quoted_string /\ i > 0 /\ sql_content[i] = q
               /\ current_statement # <<>>
               /\ current_statement[Len(current_statement)] = q)
               => /\ in_quoted_string' /\ current_quote' = q
                  /\ h_quote_at' = i
                  /\ current_statement' = current_statement \o <<q>>
                  /\ statements' = statements
                  /\ i' = i + 1]_vars
    /\ [][(Reads(";") /\ in_quoted_string /\ h_quote_at = i - 1 /\ i > 1
             /\ sql_content[i - 1] = current_quote)
            => /\ current_statement' = Append(current_statement, ";")
               /\ statements' = statements
               /\ in_quoted_string']_vars
    /\ [](pc = "done" /\ sql_content = TextDoubledQuote
            => statements = <<TextDoubledQuote>>)

\* C27 witness: in ''';' the doubled quote has closed and reopened the
\* region, and the ';' after it has been appended inside the region.
SemicolonAfterDoubledQuote ==
    /\ sql_content = TextDoubledQuote
    /\ pc = "scan" /\ i = 4
    /\ in_quoted_string /\ current_quote = "'"
    /\ h_quote_at = 2
    /\ statements = <<>>
    /\ current_statement = <<"'", "'", "'", ";">>

(***************************************************************************)
(* Texts with SQL comments: the characters of -- and of the block comment   *)
(* delimiters, a newline, a quote, ';' and a backslash.                     *)
(***************************************************************************)
CommentAlphabet == {"-", "/", "*", "\n", "'", ";", "\\"}

\* -- don't\nA;B;
TextCommentQuote ==
    <<"-", "-", " ", "d", "o", "n", "'", "t", "\n", "A", ";", "B", ";">>

\* -- a;b\nC;
TextCommentSemicolon == <<"-", "-", " ", "a", ";", "b", "\n", "C", ";">>

\* /* ; */A;
TextBlockComment == <<"/", "*", " ", ";", " ", "*", "/", "A", ";">>

CommentTexts ==
    (UNION {[1..n -> CommentAlphabet] : n \in 0..MaxLen})
        \cup {TextCommentQuote, TextCommentSemicolon, TextBlockComment}

InitComment ==
    /\ quote_chars = InitQuoteChars
    /\ escape_char = InitEscapeChar
    /\ sql_content \in CommentTexts
    /\ statements = <<>>
    /\ current_statement = <<>>
    /\ in_quoted_string = FALSE
    /\ current_quote = None
    /\ i = 0
    /\ pc = "scan"
    /\ h_seg_start = 0
    /\ h_quote_at = -1
    /\ h_spans = <<>>
    /\ h_fragments = NoFragments
    /\ h_returned = <<>>
    /\ other = NoOther
    /\ parse_file = NoFile
    /\ validation_results = <<>>
    /\ h_delims = 0
    /\ rotation = NoRotation
    /\ poller = NoPoller

CommentSpec == InitComment /\ [][Next]_vars

\* C28: SQL comments get no special treatment.  The characters - / * and
\* newline are appended like any other character, in a region or outside,
\* and change nothing else; a ';' read outside a region after -- on the same
\* line or after /* with no */ ends the statement; a quote character read
\* there opens a region, and that region stays open over a newline and over
\* every ';' and is closed only by the same quote character.
\* -- don't\nA;B; returns one statement, -- a;b\nC; returns -- a and b\nC,
\* /* ; */A; returns /* and */A.
CommentsNotSpecial ==
    /\ [][\A c \in {"-", "/", "*", "\n"} :
            Reads(c) => /\ current_statement' = Append(current_statement, c)
                        /\ i' = i + 1
                        /\ statements' = statements
                        /\ in_quoted_string' = in_quoted_string
                        /\ current_quote' = current_quote]_vars
    /\ [][(/\ Reads(";") /\ ~in_quoted_string
           /\ InLineComment(current_statement) \/ InBlockComment(current_statement))
            => /\ statements' = Append(statements, Strip(current_statement))
               /\ current_statement' = <<>>]_vars
    /\ [][\A q \in AllQuoteChars :
            (/\ Reads(q) /\ ~in_quoted_string
             /\ InLineComment(current_statement) \/ InBlockComment(current_statement))
               => /\ in_quoted_string' /\ current_quote' = q
                  /\ current_statement' = Append(current_statement, q)]_vars
    /\ [][(in_quoted_string /\ (Reads("\n") \/ Reads(";")))
            => /\ in_quoted_string' /\ current_quote' = current_quote
               /\ statements' = statements]_vars
    /\ [][(in_quoted_string /\ ~in_quoted_string') => Reads(current_quote)]_vars
    /\ [](pc = "done" /\ sql_content = TextCommentQuote
            => statements = <<SubSeq(TextCommentQuote, 1, 13)>> /\ in_quoted_string)
    /\ [](pc = "done" /\ sql_content = TextCommentSemicolon
            => statements = << <<"-", "-", " ", "a">>, <<"b", "\n", "C">> >>)
    /\ [](pc = "done" /\ sql_content = TextBlockComment
            => statements = << <<"/", "*">>, <<"*", "/", "A">> >>)

\* C28 witness: -- don't\nA;B; was returned as one statement that holds the
\* newline and both ';', the region opened by the quote of don't still open.
CommentQuoteAbsorbed ==
    /\ pc = "done"
    /\ sql_content = TextCommentQuote
    /\ in_quoted_string /\ current_quote = "'" /\ h_quote_at = 6
    /\ Len(statements) = 1
    /\ statements[1] = Slice(0, 13)

(***************************************************************************)
(* sqs-volume-writer/main.py: poll_and_process (lines 57-107).  The queue   *)
(* holds messages until they are deleted; a received message that is not    *)
(* deleted is delivered again.  A call of the SQS client returns, raises    *)
(* ClientError (an error response of the service), raises another botocore  *)
(* exception (no connection, a timeout: these are not ClientError), or is   *)
(* interrupted from the keyboard; writing the file returns, raises OSError  *)
(* or is interrupted.                                                       *)
(***************************************************************************)
\* the messages the queue may hold at the start
Messages == {1, 2, 3}

\* No step of the poller touches the parser, the file reader or the handler.
PollerFrame ==
    UNCHANGED <<quote_chars, escape_char, sql_content, statements, current_statement,
                in_quoted_string, current_quote, i, pc, h_seg_start, h_quote_at,
                h_spans, h_fragments, h_returned, other, parse_file,
                validation_results, h_delims, rotation>>

InitPoller ==
    /\ quote_chars = InitQuoteChars
    /\ escape_char = InitEscapeChar
    /\ sql_content = <<>>
    /\ statements = <<>>
    /\ current_statement = <<>>
    /\ in_quoted_string = FALSE
    /\ current_quote = None
    /\ i = 0
    /\ pc = "idle"
    /\ h_seg_start = 0
    /\ h_quote_at = -1
    /\ h_spans = <<>>
    /\ h_fragments = NoFragments
    /\ h_returned = <<>>
    /\ other = NoOther
    /\ parse_file = NoFile
    /\ validation_results = <<>>
    /\ h_delims = 0
    /\ rotation = NoRotation
    /\ \E q \in SUBSET Messages :
          poller = [pc |-> "receive_message",
                    queue |-> q,            \* the messages not deleted yet
                    msg |-> 0,              \* the message of this iteration
                    files |-> {},           \* the messages written to a file
                    written |-> FALSE,      \* write_message_to_file returned for msg
                    delete_calls |-> {},    \* history: <<message, written>> of each call
                    failed_writes |-> {},   \* history: messages whose write raised OSError
                    stopped_by |-> None]

\* lines 70-80 and 102-107: receive_message
ReceiveMessage ==
    /\ poller.pc = "receive_message"
    /\ \/ \E m \in poller.queue :
             poller' = [poller EXCEPT !.msg = m, !.written = FALSE,
                                      !.pc = "write_message_to_file"]
       \/ poller' = [poller EXCEPT !.msg = 0, !.written = FALSE]
       \/ \E e \in {"ClientError", "KeyboardInterrupt", "BotoCoreError"} :
             poller' = [poller EXCEPT
                          !.msg = 0, !.written = FALSE,
                          !.pc = IF e = "ClientError" THEN "sleep" ELSE "stopped",
                          !.stopped_by = IF e = "ClientError" THEN @ ELSE e]
    /\ PollerFrame

\* lines 85-90: write_message_to_file; on OSError the message is skipped
WriteMessageToFile ==
    /\ poller.pc = "write_message_to_file"
    /\ \E e \in {"ok", "OSError", "KeyboardInterrupt"} :
          poller' = [poller EXCEPT
                       !.files = IF e = "ok" THEN @ \cup {poller.msg} ELSE @,
                       !.written = (e = "ok"),
                       !.failed_writes = IF e = "OSError" THEN @ \cup {poller.msg} ELSE @,
                       !.pc = CASE e = "ok" -> "delete_message"
                                [] e = "OSError" -> "receive_message"
                                [] OTHER -> "stopped",
                       !.stopped_by = IF e = "KeyboardInterrupt" THEN e ELSE @]
    /\ PollerFrame

\* lines 92-101: delete_message; a ClientError is printed and the loop goes on
DeleteMessage ==
    /\ poller.pc = "delete_message"
    /\ \E e \in {"ok", "ClientError", "KeyboardInterrupt", "BotoCoreError"} :
          poller' = [poller EXCEPT
                       !.delete_calls = @ \cup {<<poller.msg, poller.written>>},
                       !.queue = IF e = "ok" THEN @ \ {poller.msg} ELSE @,
                       !.pc = IF e \in {"ok", "ClientError"} THEN "receive_message"
                                                            ELSE "stopped",
                       !.stopped_by = IF e \in {"ok", "ClientError"} THEN @ ELSE e]
    /\ PollerFrame

\* lines 102-104: after a ClientError of receive_message, time.sleep(5)
Sleep ==
    /\ poller.pc = "sleep"
    /\ \E e \in {"ok", "KeyboardInterrupt"} :
          poller' = [poller EXCEPT
                       !.pc = IF e = "ok" THEN "receive_message" ELSE "stopped",
                       !.stopped_by = IF e = "ok" THEN @ ELSE e]
    /\ PollerFrame

NextPoller == ReceiveMessage \/ WriteMessageToFile \/ DeleteMessage \/ Sleep

PollerSpec == InitPoller /\ [][NextPoller]_vars

\* C29: delete after write.  delete_message is called for a message only
\* after write_message_to_file returned for it in the same iteration; a
\* message whose write raised OSError is not deleted in that iteration and
\* the loop goes on; and the loop stops only on KeyboardInterrupt.
DeleteAfterWriteUntilInterrupted ==
    /\ \A c \in poller.delete_calls : c[2] /\ c[1] \in poller.files
    /\ poller.pc = "delete_message" => (poller.written /\ poller.msg \in poller.files)
    /\ (poller.pc = "receive_message" /\ poller.msg # 0 /\ ~poller.written)
          => poller.msg \in (poller.queue \cap poller.failed_writes)
    /\ poller.pc = "stopped" => poller.stopped_by = "KeyboardInterrupt"

\* C30: quote-state well-formedness.  In every state in_quoted_string is true
\* exactly when current_quote is one of the three quote characters, and
\* current_quote is None otherwise; a step changes current_quote only from
\* None to a quote character, in_quoted_string becoming true, or from a quote
\* character to None, in_quoted_string becoming false.
QuoteStateWellFormed ==
    /\ [](/\ in_quoted_string \in BOOLEAN
          /\ current_quote \in AllQuoteChars \cup {None}
          /\ in_quoted_string <=> current_quote \in AllQuoteChars
          /\ ~in_quoted_string => current_quote = None)
    /\ [][current_quote' # current_quote
            => \/ /\ current_quote = None /\ current_quote' \in AllQuoteChars
                  /\ ~in_quoted_string /\ in_quoted_string'
               \/ /\ current_quote \in AllQuoteChars /\ current_quote' = None
                  /\ in_quoted_string /\ ~in_quoted_string']_vars
    /\ [][in_quoted_string' # in_quoted_string => current_quote' # current_quote]_vars

\* C30 witness: in SELECT '"';SELECT "it's"; the region of ' was closed and
\* the region of " is open, the ' of it's being read inside it.
SecondRegionOpen ==
    /\ sql_content = TextMixedQuotes
    /\ pc = "scan"
    /\ in_quoted_string /\ current_quote = "\""
    /\ h_quote_at = 18
    /\ Reads("'")

====
